---- MODULE Spec2Model ----
(***************************************************************************)
(* UserPravah: route resolution, route collection, navigation-flow         *)
(* extraction and graph assembly, modelled from the TypeScript sources.    *)
(*                                                                         *)
(* Paths are sequences of one-character strings, so that the string        *)
(* operations of the code (replace, slice, startsWith, split, regular      *)
(* expression tests) are computed character by character.                  *)
(***************************************************************************)
EXTENDS Integers, Sequences, FiniteSets, TLC

VARIABLES
    \* ---- path normalizer, exercised on its own
    parentCtx,      \* parentRouteContextFullPath of the element being parsed
    segment,        \* the element's path literal
    fullPath,       \* route.fullPath computed by parseRouteObject, or Absent
    reactFullPath,  \* buildFullPath(parentCtx, segment) of the React analyzer
    once,           \* the normalization applied to the raw input
    twice,          \* the normalization applied to `once`
    depth,          \* nesting depth of the element being parsed
    \* ---- route collection
    routes,         \* this.routes: the canonical route table, in insertion order
    added,          \* the routes handed to addRouteToCollection so far, in order
    tables,         \* this.routes after each of those calls, in order
    \* ---- one analysis run of the Angular analyzer
    project,                \* the source files analysed
    processedRouteObjects,  \* object literals already turned into a Route
    processedLazyLoads,     \* the memo of "target#parentFullPath" signatures
    microtasks,             \* continuations of loadAndParseLazyModule not yet run
    expansions,             \* the expansions performed, as <<target, parent>>, in order
    parses,                 \* the Routes built, as <<object literal, fullPath>>, in order
    phase,                  \* where AngularAnalyzer.analyze stands
    \* ---- navigation flows and the drawn graphs
    navigationCalls, \* the router calls and routerLink attributes of the source files
    flows,          \* this.flows: the navigation flows, in order
    layoutGraph,    \* the digraph of the first DOT generator, or NoGraph
    pathGraph,      \* the digraph of the second DOT generator, or NoGraph
    \* ---- FlowAnalyzer.analyze on a project directory
    directory,      \* the project directory: whether it exists, and its files
    framework,      \* options.framework
    outcome,        \* "pending", "returned" or "threw"
    result,         \* the AnalysisResult returned
    \* ---- FlowAnalyzer.generateOutputs
    options,        \* baseOptions: outputDirectory, layout and theme
    outputFormats,  \* the format names asked for, in order
    outputs,        \* the GeneratedOutputs returned with the first DotGenerator registered
    outputsByPath,  \* the same with the second DotGenerator registered
    \* ---- the chain of analyzeRoutingModules calls through NgModule imports
    callStack,      \* the calls in progress: the file of each and its next import
    stackOverflow   \* a call was refused because the call stack was exhausted

pathVars == <<parentCtx, segment, fullPath, reactFullPath, once, twice, depth>>

collVars == <<routes, added, tables>>

runVars ==
    <<project, processedRouteObjects, processedLazyLoads, microtasks, expansions, parses, phase>>

navVars == <<navigationCalls, flows, layoutGraph, pathGraph>>

entryVars == <<directory, framework, outcome, result>>

outVars == <<options, outputFormats, outputs, outputsByPath>>

modVars == <<callStack, stackOverflow>>

vars == <<pathVars, collVars, runVars, navVars, entryVars, outVars, modVars>>

-----------------------------------------------------------------------------
(* Bounds *)

\* longest path literal of a route element
MaxSegLen == 4
\* deepest nesting of children arrays explored by the path normalizer runs
MaxDepth == 1
\* most calls of addRouteToCollection in a run of the collection on its own
MaxAdds == 3

-----------------------------------------------------------------------------
(* Strings as sequences of characters *)

\* `undefined` for a value that is a string when present
Absent == <<"undefined">>

Slash == "/"

SegChars == {"/", "a"}

RECURSIVE SeqsUpTo(_, _)
SeqsUpTo(S, n) ==
    IF n = 0 THEN {<<>>}
    ELSE LET shorter == SeqsUpTo(S, n - 1)
         IN  shorter \cup {Append(s, c) : s \in {t \in shorter : Len(t) = n - 1}, c \in S}

Segments == SeqsUpTo(SegChars, MaxSegLen)

startsWith(s, c) == Len(s) > 0 /\ s[1] = c

endsWith(s, c) == Len(s) > 0 /\ s[Len(s)] = c

\* s.includes("//")
HasDoubleSlash(s) == \E i \in 1..(Len(s) - 1) : s[i] = Slash /\ s[i + 1] = Slash

\* s.replace(/\/\//g, "/"): one left-to-right pass over non-overlapping matches
RECURSIVE ReplaceDoubleSlashFrom(_, _)
ReplaceDoubleSlashFrom(s, i) ==
    IF i > Len(s) THEN <<>>
    ELSE IF i < Len(s) /\ s[i] = Slash /\ s[i + 1] = Slash
         THEN <<Slash>> \o ReplaceDoubleSlashFrom(s, i + 2)
         ELSE <<s[i]>> \o ReplaceDoubleSlashFrom(s, i + 1)

ReplaceDoubleSlash(s) == ReplaceDoubleSlashFrom(s, 1)

\* s.slice(0, -1) when s is not "/" and ends with "/"
StripTrailingSlash(s) ==
    IF s /= <<Slash>> /\ endsWith(s, Slash) THEN SubSeq(s, 1, Len(s) - 1) ELSE s

\* "Normalize fullPath" of parseRouteObject
NormalizeFullPath(s) ==
    LET collapsed == ReplaceDoubleSlash(s)
        stripped  == StripTrailingSlash(collapsed)
    IN  IF stripped = <<>> THEN <<Slash>> ELSE stripped

\* "Calculate fullPath" of parseRouteObject, before normalization
JoinFullPath(parent, path) ==
    IF parent = <<Slash>> /\ path = <<>> THEN <<Slash>>
    ELSE IF parent = <<Slash>> THEN <<Slash>> \o path
    ELSE IF path = <<>> THEN parent
    ELSE parent \o <<Slash>> \o path

\* route.fullPath as parseRouteObject leaves it
ResolveFullPath(parent, path) == NormalizeFullPath(JoinFullPath(parent, path))

\* ReactAnalyzer.buildFullPath
buildFullPath(parentPath, childPath) ==
    IF startsWith(childPath, Slash) THEN childPath
    ELSE LET cleanParent == IF endsWith(parentPath, Slash)
                            THEN SubSeq(parentPath, 1, Len(parentPath) - 1)
                            ELSE parentPath
             cleanChild  == IF startsWith(childPath, Slash)
                            THEN SubSeq(childPath, 2, Len(childPath))
                            ELSE childPath
         IN  IF cleanParent = <<>> \/ cleanParent = <<Slash>>
             THEN <<Slash>> \o cleanChild
             ELSE cleanParent \o <<Slash>> \o cleanChild

\* s.lastIndexOf("/"), counted from 1; 0 when there is none
LastIndexOfSlash(s) ==
    IF \E i \in 1..Len(s) : s[i] = Slash
    THEN CHOOSE i \in 1..Len(s) : s[i] = Slash /\ \A j \in (i + 1)..Len(s) : s[j] /= Slash
    ELSE 0

\* s.substring(0, s.lastIndexOf("/") + 1) || "/"
ParentDir(s) ==
    LET cut == SubSeq(s, 1, LastIndexOfSlash(s))
    IN  IF cut = <<>> THEN <<Slash>> ELSE cut

\* s.split("/").filter(Boolean): the non-empty segments of s
RECURSIVE SegmentsFrom(_, _, _)
SegmentsFrom(s, i, cur) ==
    IF i > Len(s) THEN (IF cur = <<>> THEN <<>> ELSE <<cur>>)
    ELSE IF s[i] = Slash
         THEN (IF cur = <<>> THEN <<>> ELSE <<cur>>) \o SegmentsFrom(s, i + 1, <<>>)
         ELSE SegmentsFrom(s, i + 1, Append(cur, s[i]))

SplitSegments(s) == SegmentsFrom(s, 1, <<>>)

\* "/" + segments.join("/")
RECURSIVE JoinFrom(_, _)
JoinFrom(segs, i) ==
    IF i > Len(segs) THEN <<>>
    ELSE <<Slash>> \o segs[i] \o JoinFrom(segs, i + 1)

AbsoluteOf(segs) == IF segs = <<>> THEN <<Slash>> ELSE JoinFrom(segs, 1)

\* path.posix.resolve(dir, rel) for an absolute dir; the paths modelled hold
\* no "." or ".." segment, so resolving is joining and dropping empty segments
PosixResolve(dir, rel) == AbsoluteOf(SplitSegments(dir \o <<Slash>> \o rel))

\* path.dirname(p) for an absolute p without trailing slash
Dirname(p) ==
    LET i == LastIndexOfSlash(p)
    IN  IF i = 0 THEN <<".">>
        ELSE IF i = 1 THEN <<Slash>>
        ELSE SubSeq(p, 1, i - 1)

\* position i of s starts a match of /:[^\/]+/ : a colon and a following
\* character that is not a slash
StartsParam(s, i) == s[i] = ":" /\ i < Len(s) /\ s[i + 1] /= Slash

\* the first position after i that holds a slash, or Len(s) + 1
RECURSIVE SegmentEnd(_, _)
SegmentEnd(s, i) ==
    IF i > Len(s) \/ s[i] = Slash THEN i ELSE SegmentEnd(s, i + 1)

\* cleanRoutePath: path.replace(/:[^\/]+/g, (match) => match.substring(1))
RECURSIVE CleanFrom(_, _)
CleanFrom(s, i) ==
    IF i > Len(s) THEN <<>>
    ELSE IF StartsParam(s, i)
         THEN SubSeq(s, i + 1, SegmentEnd(s, i + 1) - 1) \o CleanFrom(s, SegmentEnd(s, i + 1))
         ELSE <<s[i]>> \o CleanFrom(s, i + 1)

cleanRoutePath(path) == CleanFrom(path, 1)

\* the token that stands for "[^/]+" in a pattern
Wild == "[^/]+"

\* originalPath.replace(/:[^\\/]+/g, "[^/]+") as a sequence of pattern tokens
RECURSIVE PatternFrom(_, _)
PatternFrom(s, i) ==
    IF i > Len(s) THEN <<>>
    ELSE IF StartsParam(s, i)
         THEN <<Wild>> \o PatternFrom(s, SegmentEnd(s, i + 1))
         ELSE <<s[i]>> \o PatternFrom(s, i + 1)

\* new RegExp("^" + pattern + "$").test(target), from token i and character j
RECURSIVE MatchesFrom(_, _, _, _)
MatchesFrom(pat, i, s, j) ==
    IF i > Len(pat) THEN j > Len(s)
    ELSE IF pat[i] = Wild
         THEN \E k \in (j + 1)..(Len(s) + 1) :
                /\ \A m \in j..(k - 1) : s[m] /= Slash
                /\ MatchesFrom(pat, i + 1, s, k)
         ELSE j <= Len(s) /\ s[j] = pat[i] /\ MatchesFrom(pat, i + 1, s, j + 1)

\* the test of a concrete target against a node's parameterized path
MatchesPattern(originalPath, target) == MatchesFrom(PatternFrom(originalPath, 1), 1, target, 1)

\* name.replace(/Component$/, "")
StripComponentSuffix(name) ==
    IF name = "AComponent" THEN "A"
    ELSE IF name = "BComponent" THEN "B"
    ELSE name

-----------------------------------------------------------------------------
(* Routes and the route collection *)

\* `undefined` for a component or a loadChildren target
NoName == ""

\* a Route (core/types.ts); an absent optional field holds NoName, Absent,
\* the empty sequence (children, guards) or FALSE (isRoot)
Route(path, fp, component, redirectTo, loadChildren, children, guards, isRoot) ==
    [path |-> path, fullPath |-> fp, component |-> component,
     redirectTo |-> redirectTo, loadChildren |-> loadChildren,
     children |-> children, guards |-> guards, isRoot |-> isRoot]

\* JavaScript truthiness of an optional string held as a character sequence
TruthyPath(v) == v /= Absent /\ v /= <<>>

\* JavaScript truthiness of an optional identifier
TruthyName(v) == v /= NoName

\* routes.findIndex(pred): the first index whose route satisfies pred, or 0
FindIndex(rs, pred(_)) ==
    IF \E i \in 1..Len(rs) : pred(rs[i])
    THEN CHOOSE i \in 1..Len(rs) : pred(rs[i]) /\ \A j \in 1..(i - 1) : ~pred(rs[j])
    ELSE 0

\* the first check of addRouteToCollection: nothing to record
IsInformationFree(pr) ==
    /\ ~TruthyName(pr.component)
    /\ ~TruthyName(pr.loadChildren)
    /\ ~TruthyPath(pr.redirectTo)
    /\ Len(pr.children) = 0
    /\ pr.path = <<>>

\* updateReason of addRouteToCollection is not empty
HasUpdateReason(pr, existingRoute) ==
    \/ TruthyName(pr.component) /\ ~TruthyName(existingRoute.component)
    \/ TruthyName(pr.loadChildren) /\ ~TruthyName(existingRoute.loadChildren)
    \/ TruthyPath(pr.redirectTo) /\ ~TruthyPath(existingRoute.redirectTo)

\* the replacement test of the same-component branch with the catch-all
\* clause left out
IsLongerOnly(pr, existingRoute) ==
    Len(pr.fullPath) > Len(existingRoute.fullPath)

\* the replacement test of the same-component branch
IsMoreSpecific(pr, existingRoute) ==
    \/ Len(pr.fullPath) > Len(existingRoute.fullPath)
    \/ /\ existingRoute.path = <<"*", "*">>
       /\ (TruthyName(pr.component) \/ TruthyName(pr.loadChildren))

\* the final duplication check
IsTrulyDuplicate(r, pr) ==
    /\ r.fullPath = pr.fullPath
    /\ \/ TruthyName(r.component) /\ TruthyName(pr.component) /\ r.component = pr.component
       \/ /\ TruthyName(r.loadChildren) /\ TruthyName(pr.loadChildren)
          /\ r.loadChildren = pr.loadChildren
       \/ TruthyPath(r.redirectTo) /\ TruthyPath(pr.redirectTo) /\ r.redirectTo = pr.redirectTo
       \/ /\ ~TruthyName(r.component) /\ ~TruthyName(pr.component)
          /\ ~TruthyName(r.loadChildren) /\ ~TruthyName(pr.loadChildren)
          /\ ~TruthyPath(r.redirectTo) /\ ~TruthyPath(pr.redirectTo)
          /\ Len(r.children) > 0 /\ Len(pr.children) > 0

\* the new route is pushed and the entry it should replace is kept
PushBeside(rs, i, pr) == Append(rs, pr)

\* an entry at the same fullPath is replaced by the new route
ReplaceAt(rs, i, pr) == [rs EXCEPT ![i] = pr]

\* addRouteToCollection with the fullPath lookup left out
addRouteAlwaysPush(rs, pr) ==
    IF IsInformationFree(pr) THEN rs ELSE Append(rs, pr)

\* addRouteToCollection: the routes after the call
addRouteToCollection(rs, pr) ==
    IF IsInformationFree(pr) THEN rs
    ELSE LET existingRouteByPathIndex == FindIndex(rs, LAMBDA r : r.fullPath = pr.fullPath)
             existingRouteByComponentIndex ==
                 FindIndex(rs, LAMBDA r : /\ TruthyName(r.component)
                                          /\ TruthyName(pr.component)
                                          /\ r.component = pr.component)
         IN  IF existingRouteByPathIndex /= 0
             THEN IF HasUpdateReason(pr, rs[existingRouteByPathIndex])
                  THEN ReplaceAt(rs, existingRouteByPathIndex, pr)
                  ELSE rs
             ELSE IF existingRouteByComponentIndex /= 0
             THEN IF IsMoreSpecific(pr, rs[existingRouteByComponentIndex])
                  THEN ReplaceAt(rs, existingRouteByComponentIndex, pr)
                  ELSE rs
             ELSE IF \E i \in 1..Len(rs) : IsTrulyDuplicate(rs[i], pr)
             THEN rs
             ELSE Append(rs, pr)

-----------------------------------------------------------------------------
(* The project under analysis *)

\* An object literal of a route array, as parseRouteObject reads it:
\*   path         the string literal of `path`, NonLiteral when the
\*                initializer is another expression, or Absent (no property)
\*   component    the identifier of `component`, or NoName
\*   redirectTo   the string literal of `redirectTo` (possibly empty), or Absent
\*   loadChildren the import target of `loadChildren`, or NoName
\*   guards       the texts of the canActivate elements
NonLiteral == <<"expression">>

ObjectLiteral(path, component, redirectTo, loadChildren, guards) ==
    [path |-> path, component |-> component, redirectTo |-> redirectTo,
     loadChildren |-> loadChildren, guards |-> guards]

\* the object literals drawn for a place whose path literals are paths
ObjectLiteralsAt(paths) ==
    {ObjectLiteral(p, c, Absent, NoName, <<>>) : p \in paths, c \in {NoName, "AComponent", "BComponent"}}
    \cup {ObjectLiteral(p, NoName, <<>>, NoName, <<>>) : p \in paths}
    \cup {ObjectLiteral(p, NoName, Absent, "m", <<>>) : p \in paths}

\* a parameterized route behind a guard: canActivate: [G]
ParamRoute == ObjectLiteral(<<"a", "/", ":", "i">>, "AComponent", Absent, NoName, <<"G">>)

\* a route behind two guards: canActivate: [G, H]
GuardedRoute == ObjectLiteral(<<"b">>, "BComponent", Absent, NoName, <<"G", "H">>)

\* a route whose path is not a string literal: {path: PATHS.b, component: BComponent}
NonLiteralRoute == ObjectLiteral(NonLiteral, "BComponent", Absent, NoName, <<>>)

FirstObjects == ObjectLiteralsAt({<<>>, <<"a">>}) \cup {ParamRoute, NonLiteralRoute}

SecondObjects == ObjectLiteralsAt({<<"a">>, <<"b">>}) \cup {GuardedRoute}

\* a route that redirects to "/a"
RedirectRoute == ObjectLiteral(<<"c">>, NoName, <<Slash, "a">>, NoName, <<>>)

ThirdObjects == ObjectLiteralsAt({<<>>, <<"c">>}) \cup {RedirectRoute}

\* The source files and their arrays.  A shape places three object literals:
\*   files    file name -> [routingCall: the file passes its top array to
\*            provideRouter / RouterModule.forRoot / forChild, top: array id]
\*   arrays   array id -> the object literals (by index) of the array literal
\*   kids     object index -> the array id of its `children`, or 0
Shape(files, arrays, kids) == [files |-> files, arrays |-> arrays, kids |-> kids]

AppOnly(top) == [f \in {"app"} |-> [routingCall |-> TRUE, top |-> top]]

AppAndLazy(top, lazyTop) ==
    [f \in {"app", "m"} |->
        IF f = "app" THEN [routingCall |-> TRUE, top |-> top]
        ELSE [routingCall |-> FALSE, top |-> lazyTop]]

Shapes ==
    { \* [o1, o2, o3]
      Shape(AppOnly(1), <<(<<1, 2, 3>>)>>, <<0, 0, 0>>),
      \* [o1 {children: [o2 {children: [o3]}]}]
      Shape(AppOnly(1), <<(<<1>>), (<<2>>), (<<3>>)>>, <<2, 3, 0>>),
      \* [o1 {children: [o2, o3]}]
      Shape(AppOnly(1), <<(<<1>>), (<<2, 3>>)>>, <<2, 0, 0>>),
      \* [o1, o2 {children: [o3]}]
      Shape(AppOnly(1), <<(<<1, 2>>), (<<3>>)>>, <<0, 2, 0>>),
      \* app: [o1, o2]   m: [o3]
      Shape(AppAndLazy(1, 2), <<(<<1, 2>>), (<<3>>)>>, <<0, 0, 0>>),
      \* app: [o1]   m: [o2, o3]
      Shape(AppAndLazy(1, 2), <<(<<1>>), (<<2, 3>>)>>, <<0, 0, 0>>),
      \* app: [o1]   m: [o2 {children: [o3]}]
      Shape(AppAndLazy(1, 2), <<(<<1>>), (<<2>>), (<<3>>)>>, <<0, 3, 0>>) }

\* a lazily loaded file whose layout route, of empty path, holds a child
\* that lazily loads the file again:
\*   app: [{path: p, loadChildren: m}]
\*   m:   [{path: '', component: AComponent, children: [{path: q, loadChildren: m}]}]
ReentrantProjects ==
    {[files |-> AppAndLazy(1, 2), arrays |-> <<(<<1>>), (<<2>>), (<<3>>)>>, kids |-> <<0, 3, 0>>,
      objs |-> <<ObjectLiteral(p, NoName, Absent, "m", <<>>),
                 ObjectLiteral(<<>>, "AComponent", Absent, NoName, <<>>),
                 ObjectLiteral(q, NoName, Absent, "m", <<>>)>>] :
        p \in {<<>>, <<"a">>}, q \in {<<>>, <<"c">>}}

\* a route whose literal segment spells the parameter name of ParamRoute:
\* {path: 'a/i', component: BComponent}
LiteralTwinRoute == ObjectLiteral(<<"a", "/", "i">>, "BComponent", Absent, NoName, <<>>)

\* a literal route listed before the parameter route of the same prefix:
\*   app: [{path: 'a/i', ...}, {path: 'a/:i', ...}, o3]
TwinProjects ==
    {[files |-> AppOnly(1), arrays |-> <<(<<1, 2, 3>>)>>, kids |-> <<0, 0, 0>>,
      objs |-> <<LiteralTwinRoute, ParamRoute, o3>>] : o3 \in ThirdObjects}

Projects ==
    {[files |-> sh.files, arrays |-> sh.arrays, kids |-> sh.kids, objs |-> <<o1, o2, o3>>] :
        sh \in Shapes, o1 \in FirstObjects, o2 \in SecondObjects, o3 \in ThirdObjects}
    \cup ReentrantProjects \cup TwinProjects

-----------------------------------------------------------------------------
(* The route resolver.  A run of the synchronous code threads the analyzer's  *)
(* fields through the calls as a record st:                                   *)
(*   routes, added, tables, processedRouteObjects, processedLazyLoads,        *)
(*   microtasks, expansions, parses.                                          *)

\* parseRouteObject returned null
NullRoute == [null |-> TRUE]

IsNull(r) == "null" \in DOMAIN r

\* the state after one addRouteToCollection(pr) that left the table rs
Added(st, pr, rs) ==
    [st EXCEPT !.routes = rs, !.added = Append(st.added, pr), !.tables = Append(st.tables, rs)]

RECURSIVE AddAll(_, _, _)
\* for (const pr of parsedRoutes) this.addRouteToCollection(pr)
AddAll(st, parsed, i) ==
    IF i > Len(parsed) THEN st
    ELSE AddAll(Added(st, parsed[i], addRouteToCollection(st.routes, parsed[i])), parsed, i + 1)

\* the lazily loaded file a loadChildren target resolves to, or NoName
ResolveLazyFile(proj, target) == IF target \in DOMAIN proj.files THEN target ELSE NoName

\* the array literals of a file in document order: an array, then the
\* children arrays of its elements
RECURSIVE ArraysInOrder(_, _)
RECURSIVE ArraysOfElements(_, _, _)
ArraysInOrder(proj, arr) == <<arr>> \o ArraysOfElements(proj, proj.arrays[arr], 1)

ArraysOfElements(proj, elems, i) ==
    IF i > Len(elems) THEN <<>>
    ELSE (IF proj.kids[elems[i]] = 0 THEN <<>> ELSE ArraysInOrder(proj, proj.kids[elems[i]]))
         \o ArraysOfElements(proj, elems, i + 1)

\* the object literal has a property named path, component, loadChildren,
\* redirectTo or children
IsRouteLike(proj, o) ==
    \/ proj.objs[o].path /= Absent
    \/ proj.objs[o].component /= NoName
    \/ proj.objs[o].loadChildren /= NoName
    \/ proj.objs[o].redirectTo /= Absent
    \/ proj.kids[o] /= 0

hasRouteLikeElements(proj, arr) ==
    \E i \in 1..Len(proj.arrays[arr]) : IsRouteLike(proj, proj.arrays[arr][i])

\* the isRoot flag of parseRouteObject: no route of the table is flagged yet
MarksRoot(rs, parent, path) ==
    parent = <<Slash>> /\ path = <<>> /\ ~\E i \in 1..Len(rs) : rs[i].isRoot

\* the memo test at the head of loadAndParseLazyModule
IsProcessedLazyLoad(memo, sig) == sig \in memo

RECURSIVE ParseElements(_, _, _, _, _)
RECURSIVE parseRouteObject(_, _, _, _)
RECURSIVE loadAndParseLazyModule(_, _, _, _)
RECURSIVE processRouteArrayLiteral(_, _, _, _)
RECURSIVE GeneralScan(_, _, _, _, _, _)
RECURSIVE extractRoutes(_, _, _)

\* this.processedRouteObjects.add(element), for the element o whose Route
\* was built
Marked(st, o, route) ==
    [st EXCEPT !.processedRouteObjects = @ \cup {o},
               !.parses = Append(@, <<o, route.fullPath>>)]

\* the body of the forEach of parseRouteArray once parseRouteObject returned r
\* for the element o: the element is marked processed, its route is collected
\* and its lazy module, if any, is loaded (the call is not awaited)
AfterElement(r, o, file, parsed) ==
    IF IsNull(r.route) THEN [st |-> r.st, parsed |-> parsed]
    ELSE [st |-> IF TruthyName(r.route.loadChildren)
                 THEN loadAndParseLazyModule(
                          r.route.loadChildren, r.route.fullPath, file,
                          Marked(r.st, o, r.route))
                 ELSE Marked(r.st, o, r.route),
          parsed |-> Append(parsed, r.route)]

\* parseRouteArray: the routes parsed from the array and the state after
parseRouteArray(arr, parent, file, st) ==
    ParseElements(project.arrays[arr], 1, parent, file, [st |-> st, parsed |-> <<>>])

\* the forEach of parseRouteArray from element i on
ParseElements(elems, i, parent, file, acc) ==
    IF i > Len(elems) THEN acc
    ELSE ParseElements(elems, i + 1, parent, file,
            IF elems[i] \in acc.st.processedRouteObjects THEN acc
            ELSE AfterElement(parseRouteObject(elems[i], parent, file, acc.st),
                              elems[i], file, acc.parsed))

\* the Route parseRouteObject builds once the children are parsed (kids), and
\* the state after the children were added to the collection
RouteOf(obj, path, fp, isRoot, kids) ==
    [st |-> AddAll(kids.st, kids.parsed, 1),
     route |-> Route(path, fp, obj.component,
                     IF TruthyPath(obj.redirectTo) THEN obj.redirectTo ELSE Absent,
                     obj.loadChildren, kids.parsed, obj.guards, isRoot)]

\* pathSegmentFromProps after the switch over the properties: the literal
\* value of a string-literal path, undefined otherwise
pathSegmentFromProps(obj) == IF obj.path = NonLiteral THEN Absent ELSE obj.path

\* the object literal has no path and none of component, children,
\* loadChildren, redirectTo
HasNoRouteProperty(obj, hasChildren) ==
    /\ pathSegmentFromProps(obj) = Absent
    /\ ~TruthyName(obj.component)
    /\ ~hasChildren
    /\ ~TruthyName(obj.loadChildren)
    /\ ~TruthyPath(obj.redirectTo)

\* the path of the route: pathSegmentFromProps, "" when it is undefined
PathOf(obj) == IF pathSegmentFromProps(obj) = Absent THEN <<>> ELSE pathSegmentFromProps(obj)

\* parseRouteObject: the Route of an object literal (or NullRoute) and the
\* state after parsing its children and adding them to the collection
parseRouteObject(o, parent, file, st) ==
    IF HasNoRouteProperty(project.objs[o], project.kids[o] /= 0)
    THEN [st |-> st, route |-> NullRoute]
    ELSE RouteOf(project.objs[o], PathOf(project.objs[o]),
                 ResolveFullPath(parent, PathOf(project.objs[o])),
                 MarksRoot(st.routes, parent, PathOf(project.objs[o])),
                 IF project.kids[o] /= 0
                 THEN parseRouteArray(project.kids[o],
                                      ResolveFullPath(parent, PathOf(project.objs[o])), file, st)
                 ELSE [st |-> st, parsed |-> <<>>])

\* loadAndParseLazyModule up to its first suspension: the expansion runs at
\* once, the line after the await (the memo entry) is left as a microtask
loadAndParseLazyModule(target, parent, file, st) ==
    IF IsProcessedLazyLoad(st.processedLazyLoads, <<target, parent>>) THEN st
    ELSE IF ResolveLazyFile(project, target) = NoName THEN st
    ELSE [extractRoutes(ResolveLazyFile(project, target), parent,
                        [st EXCEPT !.expansions = Append(@, <<target, parent>>)])
            EXCEPT !.microtasks = Append(@, <<target, parent>>)]

\* the parsed routes of an array are added to the collection, and once more
AddParsedTwice(r) == AddAll(AddAll(r.st, r.parsed, 1), r.parsed, 1)

\* the parsed routes of an array are added to the collection in order
AddParsed(r) == AddAll(r.st, r.parsed, 1)

\* processRouteArrayLiteral
processRouteArrayLiteral(arr, parent, file, st) ==
    AddParsed(parseRouteArray(arr, parent, file, st))

\* performGeneralRouteScan over the arrays of the file from index i on
GeneralScan(arrs, i, processedArrays, parent, file, st) ==
    IF i > Len(arrs) THEN st
    ELSE GeneralScan(arrs, i + 1, processedArrays, parent, file,
            IF arrs[i] \in processedArrays \/ ~hasRouteLikeElements(project, arrs[i])
            THEN st
            ELSE processRouteArrayLiteral(arrs[i], parent, file, st))

\* extractRoutes (analyzeRoutingModules for one file): the routing call's
\* array first, then the general scan of every array literal of the file
extractRoutes(file, parent, st) ==
    GeneralScan(ArraysInOrder(project, project.files[file].top), 1,
                IF project.files[file].routingCall THEN {project.files[file].top} ELSE {},
                parent, file,
                IF project.files[file].routingCall
                THEN processRouteArrayLiteral(project.files[file].top, parent, file, st)
                ELSE st)

\* analyzeRoutingModules("/"): the initial scan picks app.config.ts
analyzeRoutingModules(st) ==
    IF "app" \in DOMAIN project.files THEN extractRoutes("app", <<Slash>>, st) ELSE st

-----------------------------------------------------------------------------
(* Navigation flows *)

\* NavigationFlow {from, to, type}; the analyzer sets no label
NavigationFlow(from, to, type) == [from |-> from, to |-> to, type |-> type]

\* an element of the array passed to router.navigate: a string literal, or
\* any other expression with its source text
Literal(text) == [literal |-> TRUE, text |-> text]

Expression(text) == [literal |-> FALSE, text |-> text]

\* elText.toLowerCase().includes("id")
IncludesId(text) == \E i \in 1..(Len(text) - 1) : text[i] = "i" /\ text[i + 1] = "d"

\* the segment pushed for one element of the array
SegmentOf(el) ==
    IF el.literal THEN el.text
    ELSE IF IncludesId(el.text) THEN <<":", "i", "d">>
    ELSE <<":">> \o SelectSeq(el.text, LAMBDA c : c \notin {".", "(", ")", " ", Slash})

\* s.replace(/^\/+|\/+$/g, "")
RECURSIVE TrimSlashes(_)
TrimSlashes(s) ==
    IF startsWith(s, Slash) THEN TrimSlashes(Tail(s))
    ELSE IF endsWith(s, Slash) THEN TrimSlashes(SubSeq(s, 1, Len(s) - 1))
    ELSE s

\* builtPath when segments[0] starts with "/": the later segments are appended
RECURSIVE AppendSegments(_, _, _)
AppendSegments(built, els, i) ==
    IF i > Len(els) THEN built
    ELSE AppendSegments(
            (IF endsWith(built, Slash) THEN built ELSE built \o <<Slash>>)
                \o (IF startsWith(SegmentOf(els[i]), Slash)
                    THEN Tail(SegmentOf(els[i])) ELSE SegmentOf(els[i])),
            els, i + 1)

\* builtPath otherwise: the trimmed, non-empty segments joined by "/"
RECURSIVE JoinTrimmed(_, _, _)
JoinTrimmed(built, els, i) ==
    IF i > Len(els) THEN built
    ELSE JoinTrimmed(
            IF TrimSlashes(SegmentOf(els[i])) = <<>> THEN built
            ELSE IF built = Absent THEN TrimSlashes(SegmentOf(els[i]))
            ELSE built \o <<Slash>> \o TrimSlashes(SegmentOf(els[i])),
            els, i + 1)

\* the path built from the array argument of router.navigate, or Absent
BuiltPath(els) ==
    IF Len(els) = 0 THEN Absent
    ELSE IF startsWith(SegmentOf(els[1]), Slash)
    THEN ReplaceDoubleSlash(AppendSegments(SegmentOf(els[1]), els, 2))
    ELSE IF JoinTrimmed(Absent, els, 1) = Absent THEN <<>>
    ELSE ReplaceDoubleSlash(JoinTrimmed(Absent, els, 1))

\* new URL(rel, "http://dummy.com" + base).pathname for a relative path
\* without "." and ".." segments: rel replaces the last segment of base
UrlResolve(base, rel) == IF rel = <<>> THEN base ELSE ParentDir(base) \o rel

\* this.routes.find((r) => r.component === name)
RouteOfComponent(rs, name) == FindIndex(rs, LAMBDA r : r.component = name)

\* the target of a call once the argument gave targetPath
ResolvedTarget(rs, cls, targetPath) ==
    IF startsWith(targetPath, Slash) THEN targetPath
    ELSE IF RouteOfComponent(rs, cls) /= 0
            /\ TruthyPath(rs[RouteOfComponent(rs, cls)].fullPath)
    THEN UrlResolve(rs[RouteOfComponent(rs, cls)].fullPath, targetPath)
    ELSE targetPath

\* a navigation trigger found in a source file:
\*   router.navigate([...]) / router.navigateByUrl('...') inside class cls, or
\*   a routerLink attribute in the template of the component file `cls`;
\*   enclosingIf is the text of the condition of the if statement around a
\*   call, leadingComment the text of the comment before it, Absent when none
NavigateArray(cls, els) ==
    [kind |-> "array", cls |-> cls, els |-> els, text |-> <<>>,
     enclosingIf |-> Absent, leadingComment |-> Absent]

NavigateString(cls, text) ==
    [kind |-> "string", cls |-> cls, els |-> <<>>, text |-> text,
     enclosingIf |-> Absent, leadingComment |-> Absent]

RouterLink(cls, text) ==
    [kind |-> "routerLink", cls |-> cls, els |-> <<>>, text |-> text,
     enclosingIf |-> Absent, leadingComment |-> Absent]

\* if (condText) { call }
InsideIf(call, condText) == [call EXCEPT !.enclosingIf = condText]

\* // commentText
\* call
AfterComment(call, commentText) == [call EXCEPT !.leadingComment = commentText]

\* parseNavigationCall: the flows pushed for one router call (none or one)
parseNavigationCall(rs, call) ==
    IF call.kind = "array" /\ BuiltPath(call.els) = Absent THEN <<>>
    ELSE <<NavigationFlow(call.cls,
                          ResolvedTarget(rs, call.cls,
                                         IF call.kind = "array" THEN BuiltPath(call.els)
                                         ELSE call.text),
                          "dynamic")>>

\* kebabToPascalCase(path.basename(filePath)) of a component file
kebabToPascalCase(filename) ==
    IF filename = "a.component.ts" THEN "A"
    ELSE IF filename = "b.component.ts" THEN "B"
    ELSE filename

\* extractTemplateNavigation: the flows pushed for one routerLink attribute
extractTemplateNavigation(link) ==
    IF link.text = <<>> THEN <<>>
    ELSE <<NavigationFlow(kebabToPascalCase(link.cls), StripTrailingSlash(link.text), "static")>>

\* analyzeSourceFilesForNavigation over the triggers of the project, in order
RECURSIVE FlowsOf(_, _, _)
FlowsOf(rs, triggers, i) ==
    IF i > Len(triggers) THEN <<>>
    ELSE (IF triggers[i].kind = "routerLink" THEN extractTemplateNavigation(triggers[i])
          ELSE parseNavigationCall(rs, triggers[i]))
         \o FlowsOf(rs, triggers, i + 1)

\* the navigation triggers of the source files analysed
\* if (c) { this.router.navigate(['/a', '1']); } as HomeComponent.goToAbout
ToParam ==
    InsideIf(NavigateArray("BComponent", <<Literal(<<Slash, "a">>), Literal(<<"1">>)>>), <<"c">>)

ToParamById == NavigateArray("BComponent", <<Literal(<<Slash, "a">>), Expression(<<"i", "d">>)>>)

ToB == NavigateString("AComponent", <<Slash, "b">>)

\* a call with a comment on the line before it
ToSibling == AfterComment(NavigateArray("AComponent", <<Literal(<<"c">>)>>), <<"n">>)

LinkToA == RouterLink("b.component.ts", <<Slash, "a">>)

LinkToB == RouterLink("a.component.ts", <<Slash, "b">>)

TriggerLists ==
    {<<>>, <<ToParam>>, <<ToParamById>>, <<ToB>>, <<ToSibling>>, <<LinkToA>>,
     <<ToB, ToB>>, <<ToParam, LinkToA>>, <<ToB, LinkToB>>}

-----------------------------------------------------------------------------
(* The graph assemblers of the DOT generator.  Map keys and node ids are     *)
(* strings: a path (its characters), or a path behind a prefix.              *)

\* `layout_${component}_${fullPath}`
LayoutKey(component, fp) == <<"layout_", component, "_">> \o fp

\* `layout_${component}`
LayoutId(component) == <<"layout_", component>>

RootKey == <<"ROOT">>

RootId == <<"root">>

\* no label on an edge
NoLabel == <<>>

\* s.includes("**")
IncludesWildcard(s) == \E i \in 1..(Len(s) - 1) : s[i] = "*" /\ s[i + 1] = "*"

\* the index of the entry of an insertion-ordered Map with this key, or 0
KeyIndex(m, key) ==
    IF \E i \in 1..Len(m) : m[i].key = key
    THEN CHOOSE i \in 1..Len(m) : m[i].key = key
    ELSE 0

\* Map.set: an existing key keeps its place, a new one goes last
MapSet(m, entry) ==
    IF KeyIndex(m, entry.key) = 0 THEN Append(m, entry)
    ELSE [m EXCEPT ![KeyIndex(m, entry.key)] = entry]

\* the first entry whose originalPath is p, or 0
IndexByOriginalPath(m, p) ==
    IF \E i \in 1..Len(m) : m[i].originalPath = p
    THEN CHOOSE i \in 1..Len(m) :
            m[i].originalPath = p /\ \A j \in 1..(i - 1) : m[j].originalPath /= p
    ELSE 0

\* the first entry whose parameterized originalPath matches the target, or 0
IndexByPattern(m, target) ==
    IF \E i \in 1..Len(m) : MatchesPattern(m[i].originalPath, target)
    THEN CHOOSE i \in 1..Len(m) :
            /\ MatchesPattern(m[i].originalPath, target)
            /\ \A j \in 1..(i - 1) : ~MatchesPattern(m[j].originalPath, target)
    ELSE 0

\* targetPath.replace(/\/\//g, "/") and the removal of a trailing slash
NormalizeTarget(s) == StripTrailingSlash(ReplaceDoubleSlash(s))

\* the target of a redirect or of a flow, resolved against the path `from`
\* when it is relative; `known` tells whether there is such a path
TargetPath(to, known, from) ==
    NormalizeTarget(IF startsWith(to, Slash) THEN to
                    ELSE IF known THEN PosixResolve(ParentDir(from), to)
                    ELSE <<Slash>> \o to)

RouteNode(key, id, originalPath, component, guards) ==
    [key |-> key, id |-> id, originalPath |-> originalPath, component |-> component,
     guards |-> guards]

FlowEdge(source, target, type, label) ==
    [source |-> source, target |-> target, type |-> type, label |-> label]

\* the entry of componentToNodeId for a name: the last node whose component,
\* or component without the Component suffix, is the name; or 0
ComponentIndex(m, name) ==
    IF \E i \in 1..Len(m) : TruthyName(m[i].component)
                            /\ name \in {m[i].component, StripComponentSuffix(m[i].component)}
    THEN CHOOSE i \in 1..Len(m) :
            /\ TruthyName(m[i].component)
            /\ name \in {m[i].component, StripComponentSuffix(m[i].component)}
            /\ \A j \in (i + 1)..Len(m) :
                ~(TruthyName(m[j].component)
                  /\ name \in {m[j].component, StripComponentSuffix(m[j].component)})
    ELSE 0

\* componentToNodeId.get(flow.from), else .get(flow.from without the suffix)
SourceIndex(m, from) ==
    IF ComponentIndex(m, from) /= 0 THEN ComponentIndex(m, from)
    ELSE ComponentIndex(m, StripComponentSuffix(from))

\* the separator of guards.join(", ")
CommaSpace == <<",", " ">>

RECURSIVE JoinGuardsFrom(_, _)
\* guards.join(", "), from the i-th name on; the names are single characters
JoinGuardsFrom(guards, i) ==
    IF i > Len(guards) THEN <<>>
    ELSE IF i = Len(guards) THEN <<guards[i]>>
    ELSE <<guards[i]>> \o CommaSpace \o JoinGuardsFrom(guards, i + 1)

\* the label of a dynamic flow whose target node carries guards
GuardLabel(type, m, targetIndex) ==
    IF type = "dynamic" /\ targetIndex /= 0 THEN JoinGuardsFrom(m[targetIndex].guards, 1) ELSE NoLabel

\* ---- first generator: RouteGraph, layout components and the ROOT node

IsLayoutComponent(route) == TruthyName(route.component) /\ Len(route.children) > 0

NodeIdOf(route) ==
    IF IsLayoutComponent(route) THEN LayoutKey(route.component, route.fullPath)
    ELSE route.fullPath

\* the entry RouteGraph.addRoute stores for a route
GraphNode(route, parentId) ==
    [key |-> NodeIdOf(route), route |-> route, parent |-> parentId,
     isLayoutComponent |-> IsLayoutComponent(route),
     isTopLevel |-> parentId = Absent /\ route.fullPath /= <<Slash>>]

RECURSIVE addRoute(_, _, _)
RECURSIVE AddChildRoutes(_, _, _, _, _)
\* RouteGraph.addRoute
addRoute(nodes, route, parentId) ==
    IF ~TruthyPath(route.fullPath) \/ IncludesWildcard(route.fullPath) THEN nodes
    ELSE AddChildRoutes(MapSet(nodes, GraphNode(route, parentId)), route.children, 1,
                        NodeIdOf(route), IsLayoutComponent(route))

\* the loop of addRoute over route.children
AddChildRoutes(nodes, children, i, nodeId, isLayout) ==
    IF i > Len(children) THEN nodes
    ELSE AddChildRoutes(
            IF TruthyPath(children[i].redirectTo) /\ ~TruthyName(children[i].component)
               /\ isLayout
            THEN nodes
            ELSE addRoute(nodes, children[i], nodeId),
            children, i + 1, nodeId, isLayout)

\* for (const route of analysisResult.routes) routeGraph.addRoute(route)
RECURSIVE AddRoutes(_, _, _)
AddRoutes(nodes, rs, i) ==
    IF i > Len(rs) THEN nodes
    ELSE AddRoutes(addRoute(nodes, rs[i], Absent), rs, i + 1)

\* getHierarchyEdges, first loop: parent -> node
RECURSIVE ParentEdges(_, _)
ParentEdges(nodes, i) ==
    IF i > Len(nodes) THEN <<>>
    ELSE (IF nodes[i].parent /= Absent
          THEN <<FlowEdge(nodes[i].parent, nodes[i].key, "hierarchy", NoLabel)>>
          ELSE <<>>)
         \o ParentEdges(nodes, i + 1)

\* getHierarchyEdges, second loop: ROOT -> top-level node
RECURSIVE RootEdges(_, _)
RootEdges(nodes, i) ==
    IF i > Len(nodes) THEN <<>>
    ELSE (IF nodes[i].isTopLevel
             \/ (nodes[i].route.fullPath = <<Slash>> /\ nodes[i].isLayoutComponent)
          THEN <<FlowEdge(RootKey, nodes[i].key, "hierarchy", NoLabel)>>
          ELSE <<>>)
         \o RootEdges(nodes, i + 1)

getHierarchyEdges(nodes) == ParentEdges(nodes, 1) \o RootEdges(nodes, 1)

RootNode == RouteNode(RootKey, RootId, <<"ROOT">>, NoName, <<>>)

\* the RouteNode stored for an entry of the RouteGraph
RouteNodeOf(gn) ==
    RouteNode(gn.key,
              IF gn.isLayoutComponent THEN LayoutId(gn.route.component)
              ELSE cleanRoutePath(gn.route.fullPath),
              gn.route.fullPath, gn.route.component, gn.route.guards)

\* "Add redirects to edges": the edge of a redirecting route, pushed when a
\* node stored so far has the target path
RedirectEdges(m, key, route) ==
    IF TruthyPath(route.redirectTo)
       /\ IndexByOriginalPath(m, TargetPath(route.redirectTo, TRUE, route.fullPath)) /= 0
    THEN <<FlowEdge(key,
                    m[IndexByOriginalPath(m, TargetPath(route.redirectTo, TRUE,
                                                        route.fullPath))].key,
                    "redirect", NoLabel)>>
    ELSE <<>>

\* the node is stored, then its redirect is looked up among the nodes stored
NodeStored(m, edges, gn) ==
    [routeNodes |-> m, flowEdges |-> edges \o RedirectEdges(m, gn.key, gn.route)]

\* the loop over routeGraph.getNodes()
RECURSIVE StoreNodes(_, _, _)
StoreNodes(acc, nodes, i) ==
    IF i > Len(nodes) THEN acc
    ELSE StoreNodes(NodeStored(MapSet(acc.routeNodes, RouteNodeOf(nodes[i])),
                               acc.flowEdges, nodes[i]),
                    nodes, i + 1)

\* the edge pushed for a navigation flow: only when both ends were found
EdgeOfFlow(m, flow, sourceIndex, targetIndex) ==
    IF sourceIndex /= 0 /\ targetIndex /= 0
    THEN <<FlowEdge(m[sourceIndex].key, m[targetIndex].key, flow.type,
                    GuardLabel(flow.type, m, targetIndex))>>
    ELSE <<>>

\* the target of a flow is looked up by its exact path
FlowFrom(m, flow, sourceIndex) ==
    EdgeOfFlow(m, flow, sourceIndex,
               IndexByOriginalPath(m, TargetPath(flow.to, sourceIndex /= 0,
                                                 IF sourceIndex /= 0
                                                 THEN m[sourceIndex].originalPath
                                                 ELSE <<>>)))

\* "Add navigation flows"
RECURSIVE FlowEdges(_, _, _)
FlowEdges(m, fs, i) ==
    IF i > Len(fs) THEN <<>>
    ELSE (IF ~TruthyName(fs[i].from) \/ ~TruthyPath(fs[i].to) THEN <<>>
          ELSE FlowFrom(m, fs[i], SourceIndex(m, fs[i].from)))
         \o FlowEdges(m, fs, i + 1)

\* routeNodes and flowEdges once the nodes and redirects are in
WithHierarchyAndFlows(acc, nodes, fs) ==
    [routeNodes |-> acc.routeNodes,
     flowEdges |-> acc.flowEdges \o getHierarchyEdges(nodes) \o FlowEdges(acc.routeNodes, fs, 1)]

\* the nodes of the RouteGraph become RouteNodes
FromRouteGraph(nodes, fs) ==
    WithHierarchyAndFlows(
        StoreNodes([routeNodes |-> <<RootNode>>, flowEdges |-> <<>>], nodes, 1), nodes, fs)

\* convertAnalysisToGraphData of the first generator
convertAnalysisToGraphData(rs, fs) == FromRouteGraph(AddRoutes(<<>>, rs, 1), fs)

\* the node an edge ends in: by key, for a redirect by path, then by pattern
TargetIndex(m, edge) ==
    IF KeyIndex(m, edge.target) /= 0 THEN KeyIndex(m, edge.target)
    ELSE IF edge.type = "redirect" /\ IndexByOriginalPath(m, edge.target) /= 0
    THEN IndexByOriginalPath(m, edge.target)
    ELSE IF edge.target /= <<>> THEN IndexByPattern(m, edge.target)
    ELSE 0

\* an edge of the drawn graph, between two nodes
DrawnEdge(sourceNode, targetNode, edge) ==
    [source |-> sourceNode, target |-> targetNode, type |-> edge.type, label |-> edge.label]

\* `${source.id}->${target.id}->${type}` and the label when there is one
EdgeKey(e) == <<e.source.id, e.target.id, e.type, e.label>>

\* the edge is drawn whether or not an edge with its key is there
DrawAlways(drawn, e) == Append(drawn, e)

\* the edge is drawn unless an edge with its key is there
DrawOnce(drawn, e) ==
    IF \E k \in 1..Len(drawn) : EdgeKey(drawn[k]) = EdgeKey(e) THEN drawn
    ELSE Append(drawn, e)

\* the edge is drawn when both its ends are nodes
Draw(drawn, m, edge, sourceIndex, targetIndex) ==
    IF sourceIndex /= 0 /\ targetIndex /= 0
    THEN DrawOnce(drawn, DrawnEdge(m[sourceIndex], m[targetIndex], edge))
    ELSE drawn

\* "Create edges" of the first createGraph
RECURSIVE CreateEdges(_, _, _, _)
CreateEdges(drawn, m, edges, i) ==
    IF i > Len(edges) THEN drawn
    ELSE CreateEdges(Draw(drawn, m, edges[i], KeyIndex(m, edges[i].source),
                          TargetIndex(m, edges[i])),
                     m, edges, i + 1)

Drawn(data) ==
    [nodes |-> data.routeNodes,
     edges |-> CreateEdges(<<>>, data.routeNodes, data.flowEdges, 1),
     drawn |-> TRUE]

\* createGraph of the first generator: the nodes and edges of the digraph
createGraph(rs, fs) == Drawn(convertAnalysisToGraphData(rs, fs))

\* ---- second generator: one node per fullPath, hierarchy by path.dirname

\* the RouteNode stored for a route, keyed by its fullPath
RouteNodeByPath(route) ==
    RouteNode(route.fullPath, cleanRoutePath(route.fullPath), route.fullPath,
              route.component, route.guards)

\* the redirect edge of a route, pushed with the target path as it is
RedirectEdgesByPath(route) ==
    IF TruthyPath(route.redirectTo)
    THEN <<FlowEdge(route.fullPath, TargetPath(route.redirectTo, TRUE, route.fullPath),
                    "redirect", NoLabel)>>
    ELSE <<>>

\* the loop over analysisResult.routes
RECURSIVE StoreRoutes(_, _, _)
StoreRoutes(acc, rs, i) ==
    IF i > Len(rs) THEN acc
    ELSE StoreRoutes(
            IF ~TruthyPath(rs[i].fullPath) \/ IncludesWildcard(rs[i].fullPath) THEN acc
            ELSE [routeNodes |-> MapSet(acc.routeNodes, RouteNodeByPath(rs[i])),
                  flowEdges |-> acc.flowEdges \o RedirectEdgesByPath(rs[i])],
            rs, i + 1)

\* path.dirname(routePath) as the hierarchy loop adjusts it
ParentPath(routePath) ==
    IF Dirname(routePath) = <<".">> THEN <<Slash>>
    ELSE IF StripTrailingSlash(Dirname(routePath)) = <<>> THEN <<Slash>>
    ELSE StripTrailingSlash(Dirname(routePath))

\* the hierarchy loop: parent path -> route path when the parent is a node
RECURSIVE HierarchyEdgesByPath(_, _)
HierarchyEdgesByPath(m, i) ==
    IF i > Len(m) THEN <<>>
    ELSE (IF m[i].key /= <<Slash>>
             /\ KeyIndex(m, ParentPath(m[i].key)) /= 0
             /\ ParentPath(m[i].key) /= m[i].key
          THEN <<FlowEdge(ParentPath(m[i].key), m[i].key, "hierarchy", NoLabel)>>
          ELSE <<>>)
         \o HierarchyEdgesByPath(m, i + 1)

\* the edge pushed for a flow whose source is a node; the target path is
\* left to createGraph
FlowToPath(m, flow, sourceIndex, targetPath) ==
    IF sourceIndex /= 0 /\ targetPath /= <<>>
    THEN <<FlowEdge(m[sourceIndex].key, targetPath, flow.type,
                    GuardLabel(flow.type, m, KeyIndex(m, targetPath)))>>
    ELSE <<>>

\* the source of a flow is the route of its component (flow.from is an
\* identifier here, never a path literal)
FlowFromPath(m, flow, sourceIndex) ==
    FlowToPath(m, flow, sourceIndex,
               TargetPath(flow.to, sourceIndex /= 0,
                          IF sourceIndex /= 0 THEN m[sourceIndex].key ELSE <<>>))

RECURSIVE FlowEdgesByPath(_, _, _)
FlowEdgesByPath(m, fs, i) ==
    IF i > Len(fs) THEN <<>>
    ELSE (IF ~TruthyName(fs[i].from) \/ ~TruthyPath(fs[i].to) THEN <<>>
          ELSE FlowFromPath(m, fs[i], SourceIndex(m, fs[i].from)))
         \o FlowEdgesByPath(m, fs, i + 1)

WithHierarchyAndFlowsByPath(acc, fs) ==
    [routeNodes |-> acc.routeNodes,
     flowEdges |-> acc.flowEdges \o HierarchyEdgesByPath(acc.routeNodes, 1)
                    \o FlowEdgesByPath(acc.routeNodes, fs, 1)]

\* convertAnalysisToGraphData of the second generator
convertAnalysisToGraphDataByPath(rs, fs) ==
    WithHierarchyAndFlowsByPath(StoreRoutes([routeNodes |-> <<>>, flowEdges |-> <<>>], rs, 1), fs)

\* the node an edge ends in: by key, then by pattern
TargetIndexByPath(m, edge) ==
    IF KeyIndex(m, edge.target) /= 0 THEN KeyIndex(m, edge.target)
    ELSE IF edge.target /= <<>> THEN IndexByPattern(m, edge.target)
    ELSE 0

\* the edge loop of the second createGraph
RECURSIVE CreateEdgesByPath(_, _, _, _)
CreateEdgesByPath(drawn, m, edges, i) ==
    IF i > Len(edges) THEN drawn
    ELSE CreateEdgesByPath(Draw(drawn, m, edges[i], KeyIndex(m, edges[i].source),
                                TargetIndexByPath(m, edges[i])),
                           m, edges, i + 1)

DrawnByPath(data) ==
    [nodes |-> data.routeNodes,
     edges |-> CreateEdgesByPath(<<>>, data.routeNodes, data.flowEdges, 1),
     drawn |-> TRUE]

\* createGraph of the second generator
createGraphByPath(rs, fs) == DrawnByPath(convertAnalysisToGraphDataByPath(rs, fs))

-----------------------------------------------------------------------------
(* The path normalizer on its own: SpecPath *)

PathIdle ==
    /\ parentCtx = <<Slash>>
    /\ segment = <<>>
    /\ fullPath = Absent
    /\ reactFullPath = Absent
    /\ once = Absent
    /\ twice = Absent
    /\ depth = 0

CollIdle ==
    /\ routes = <<>>
    /\ added = <<>>
    /\ tables = <<>>

NoProject == [files |-> <<>>, arrays |-> <<>>, kids |-> <<>>, objs |-> <<>>]

NoGraph == [nodes |-> <<>>, edges |-> <<>>, drawn |-> FALSE]

NoResult == [routes |-> <<>>, flows |-> <<>>, menus |-> <<>>]

NoOptions == [outputDirectory |-> "undefined", layout |-> "undefined", theme |-> "undefined"]

\* generateOutputs has not returned
NotGenerated == <<[format |-> "pending", directory |-> "undefined"]>>

ModIdle ==
    /\ callStack = <<>>
    /\ stackOverflow = FALSE

OutIdle ==
    /\ ModIdle
    /\ options = NoOptions
    /\ outputFormats = <<>>
    /\ outputs = NotGenerated
    /\ outputsByPath = NotGenerated

EntryIdle ==
    /\ OutIdle
    /\ directory = [exists |-> FALSE, files |-> {}]
    /\ framework = "auto"
    /\ outcome = "pending"
    /\ result = NoResult

NavIdle ==
    /\ EntryIdle
    /\ navigationCalls = <<>>
    /\ flows = <<>>
    /\ layoutGraph = NoGraph
    /\ pathGraph = NoGraph

RunIdle ==
    /\ NavIdle
    /\ project = NoProject
    /\ processedRouteObjects = {}
    /\ processedLazyLoads = {}
    /\ microtasks = <<>>
    /\ expansions = <<>>
    /\ parses = <<>>
    /\ phase = "idle"

InitPath ==
    /\ parentCtx = <<Slash>>
    /\ segment \in Segments
    /\ fullPath = Absent
    /\ reactFullPath = Absent
    /\ once = Absent
    /\ twice = Absent
    /\ depth = 0
    /\ CollIdle
    /\ RunIdle

\* parseRouteObject computes the fullPath of an element under its parent context
ResolveSegment ==
    /\ fullPath = Absent
    /\ fullPath' = ResolveFullPath(parentCtx, segment)
    /\ reactFullPath' = buildFullPath(parentCtx, segment)
    /\ UNCHANGED <<parentCtx, segment, once, twice, depth, collVars, runVars, navVars, entryVars, outVars, modVars>>

\* parseRouteObject parses the children with the just-computed fullPath as parent
DescendToChild ==
    /\ fullPath /= Absent
    /\ depth < MaxDepth
    /\ \E seg \in Segments :
        /\ parentCtx' = fullPath
        /\ segment' = seg
    /\ fullPath' = Absent
    /\ reactFullPath' = Absent
    /\ depth' = depth + 1
    /\ UNCHANGED <<once, twice, collVars, runVars, navVars, entryVars, outVars, modVars>>

\* the normalization applied to a raw string
NormalizeInput ==
    /\ once = Absent
    /\ once' = NormalizeFullPath(segment)
    /\ UNCHANGED <<parentCtx, segment, fullPath, reactFullPath, twice, depth, collVars, runVars, navVars, entryVars, outVars, modVars>>

\* the normalization applied to its own result
NormalizeAgain ==
    /\ once /= Absent
    /\ twice = Absent
    /\ twice' = NormalizeFullPath(once)
    /\ UNCHANGED <<parentCtx, segment, fullPath, reactFullPath, once, depth, collVars, runVars, navVars, entryVars, outVars, modVars>>

NextPath == ResolveSegment \/ DescendToChild \/ NormalizeInput \/ NormalizeAgain

SpecPath == InitPath /\ [][NextPath]_vars

-----------------------------------------------------------------------------
(* The route collection on its own: SpecColl *)

\* the routes parseRouteObject can hand to the collection
CollPaths == {<<(<<>>), (<<Slash>>)>>, <<(<<"a">>), (<<Slash, "a">>)>>,
              <<(<<"*", "*">>), (<<Slash, "*", "*">>)>>}

CandidateRoutes ==
    {Route(p[1], p[2], c, r, l, <<>>, <<>>, FALSE) :
        p \in CollPaths, c \in {NoName, "AComponent", "BComponent"}, r \in {Absent, <<Slash>>},
        l \in {NoName, "m"}}
    \cup {Route(<<>>, <<Slash>>, c, r, l, <<>>, <<>>, TRUE) :
        c \in {NoName, "AComponent", "BComponent"}, r \in {Absent, <<Slash>>}, l \in {NoName, "m"}}

InitColl ==
    /\ PathIdle
    /\ CollIdle
    /\ RunIdle

\* one call of addRouteToCollection
AddRoute ==
    /\ Len(added) < MaxAdds
    /\ \E pr \in CandidateRoutes :
        /\ routes' = addRouteToCollection(routes, pr)
        /\ added' = Append(added, pr)
        /\ tables' = Append(tables, routes')
    /\ UNCHANGED <<pathVars, runVars, navVars, entryVars, outVars, modVars>>

NextColl == AddRoute

SpecColl == InitColl /\ [][NextColl]_vars

-----------------------------------------------------------------------------
(* FlowAnalyzer.analyze on project directories without source files:        *)
(* SpecEntry                                                                *)

\* the configuration files and folders a directory can hold; package.json
\* is told apart by the dependencies it lists
ConfigFiles == {"angular.json", "package.json:@angular/core", "package.json:react",
                "tsconfig.json", "src/app"}

Directories ==
    {[exists |-> FALSE, files |-> {}]}
    \cup {[exists |-> TRUE, files |-> fs] : fs \in SUBSET ConfigFiles}

\* the values of options.framework tried; "vue" has no registered analyzer
Frameworks == {"", "auto", "angular", "react", "vue"}

\* the analyzers the command line registers, in order
RegisteredAnalyzers == <<"angular", "react">>

\* AngularAnalyzer.canAnalyze
canAnalyzeAngular(dir) ==
    \/ "angular.json" \in dir.files
    \/ "package.json:@angular/core" \in dir.files
    \/ ("tsconfig.json" \in dir.files /\ "src/app" \in dir.files)

\* ReactAnalyzer.canAnalyze
canAnalyzeReact(dir) == "package.json:react" \in dir.files

canAnalyze(name, dir) == IF name = "angular" THEN canAnalyzeAngular(dir) ELSE canAnalyzeReact(dir)

\* findFrameworkProjectsRecursively on a directory without subdirectories
findFrameworkProjects(dir) == SelectSeq(RegisteredAnalyzers, LAMBDA name : canAnalyze(name, dir))

\* detectFramework: the only project found, else the one preferred (Angular
\* before React at the same depth); "" stands for null
detectFramework(dir) ==
    IF Len(findFrameworkProjects(dir)) = 0 THEN ""
    ELSE findFrameworkProjects(dir)[1]

\* the framework must be detected: none given, "auto", or one not registered
NeedsDetection(name) ==
    name = "" \/ name = "auto" \/ ~\E i \in 1..Len(RegisteredAnalyzers) : RegisteredAnalyzers[i] = name

\* the outcomes of `new Project({tsConfigFilePath})`: the constructor is the
\* library's, and what it does without the file is not decided here
ProjectCreated(dir) == IF "tsconfig.json" \in dir.files THEN {TRUE} ELSE {TRUE, FALSE}

\* AngularAnalyzer.analyze on a directory without source files: no routing
\* file is found (a warning), no navigation is found
AngularResult == [routes |-> analyzeRoutingModules(
                                [routes |-> <<>>, added |-> <<>>, tables |-> <<>>,
                                 processedRouteObjects |-> {}, processedLazyLoads |-> {},
                                 microtasks |-> <<>>, expansions |-> <<>>,
                                 parses |-> <<>>]).routes,
                  flows |-> FlowsOf(<<>>, <<>>, 1), menus |-> <<>>]

\* ReactAnalyzer.analyze on a directory without source files: every pass
\* runs over the source files of the project, and there are none
ReactResult == NoResult

InitEntry ==
    /\ PathIdle
    /\ CollIdle
    /\ OutIdle
    /\ project = NoProject
    /\ processedRouteObjects = {}
    /\ processedLazyLoads = {}
    /\ microtasks = <<>>
    /\ expansions = <<>>
    /\ parses = <<>>
    /\ phase = "idle"
    /\ navigationCalls = <<>>
    /\ flows = <<>>
    /\ layoutGraph = NoGraph
    /\ pathGraph = NoGraph
    /\ directory \in Directories
    /\ framework \in Frameworks
    /\ outcome = "pending"
    /\ result = NoResult

\* the analysis throws
Throws ==
    /\ outcome' = "threw"
    /\ UNCHANGED result

\* the analysis returns r
Returns(r) ==
    /\ outcome' = "returned"
    /\ result' = r

\* analyzer.analyze(modifiedOptions) of the analyzer chosen
AnalyzeWith(name) ==
    IF name = "angular"
    THEN \E created \in ProjectCreated(directory) :
            IF created THEN Returns(AngularResult) ELSE Throws
    ELSE Returns(ReactResult)

\* FlowAnalyzer.analyze
FlowAnalyzerAnalyze ==
    /\ outcome = "pending"
    /\ IF ~directory.exists THEN Throws
       ELSE IF NeedsDetection(framework)
       THEN (IF detectFramework(directory) = "" THEN Throws
             ELSE AnalyzeWith(detectFramework(directory)))
       ELSE AnalyzeWith(framework)
    /\ UNCHANGED <<pathVars, collVars, runVars, navVars, directory, framework, outVars, modVars>>

NextEntry == FlowAnalyzerAnalyze

SpecEntry == InitEntry /\ [][NextEntry]_vars

-----------------------------------------------------------------------------
(* FlowAnalyzer.generateOutputs: SpecOutput *)

\* the directories that exist; process.cwd() is one of them
ExistingDirectories == {"cwd", "out"}

\* fs.existsSync(dir)
existsSync(dir) == dir \in ExistingDirectories

\* an option that is given and not the empty string
TruthyOption(v) == v \notin {"undefined", ""}

\* the layouts every generator accepts
Layouts == {"LR", "TB", "BT", "RL"}

\* the themes the first DotGenerator accepts
LayoutThemes == {"light", "dark"}

\* the themes the second DotGenerator accepts
PathThemes == {"default", "dark", "colorful"}

DirectoryErrors(opts) ==
    IF ~TruthyOption(opts.outputDirectory) THEN <<"outputDirectory is required">>
    ELSE IF ~existsSync(opts.outputDirectory) THEN <<"outputDirectory does not exist">>
    ELSE <<>>

LayoutErrors(opts) ==
    IF TruthyOption(opts.layout) /\ opts.layout \notin Layouts
    THEN <<"layout must be one of: LR, TB, BT, RL">>
    ELSE <<>>

ThemeErrors(opts, accepted) ==
    IF TruthyOption(opts.theme) /\ opts.theme \notin accepted
    THEN <<"theme must be one of the accepted themes">>
    ELSE <<>>

\* DotGenerator.validateOptions of the first generator
validateOptions(opts) ==
    DirectoryErrors(opts) \o LayoutErrors(opts) \o ThemeErrors(opts, LayoutThemes)

\* DotGenerator.validateOptions of the second generator
validateOptionsByPath(opts) ==
    DirectoryErrors(opts) \o LayoutErrors(opts) \o ThemeErrors(opts, PathThemes)

\* JsonGenerator.validateOptions
validateOptionsJson(opts) == DirectoryErrors(opts)

\* { outputDirectory: process.cwd(), ...baseOptions }
DefaultOptions(base) ==
    [base EXCEPT !.outputDirectory = IF @ = "undefined" THEN "cwd" ELSE @]

\* formatName.toLowerCase() of the format names drawn
ToLowerCase(name) == IF name = "DOT" THEN "dot" ELSE name

\* the names under which generators are registered
RegisteredFormats == {"dot", "json"}

GeneratedOutput(format, opts) == [format |-> format, directory |-> opts.outputDirectory]

\* the body of the loop over outputFormats for one format name: no
\* generator, or validation errors, skip the format
OutputOf(format, opts, errors) ==
    IF format \notin RegisteredFormats THEN <<>>
    ELSE IF errors /= <<>> THEN <<>>
    ELSE <<GeneratedOutput(format, opts)>>

ErrorsOf(format, opts, byPath) ==
    IF format = "json" THEN validateOptionsJson(opts)
    ELSE IF byPath THEN validateOptionsByPath(opts)
    ELSE validateOptions(opts)

RECURSIVE OutputsFrom(_, _, _, _)
OutputsFrom(formats, opts, byPath, i) ==
    IF i > Len(formats) THEN <<>>
    ELSE OutputOf(ToLowerCase(formats[i]), opts, ErrorsOf(ToLowerCase(formats[i]), opts, byPath))
         \o OutputsFrom(formats, opts, byPath, i + 1)

\* generateOutputs(analysisResult, outputFormats, baseOptions)
generateOutputs(formats, base, byPath) == OutputsFrom(formats, DefaultOptions(base), byPath, 1)

\* the option values drawn: not given, empty, accepted by one generator or
\* the other, or by none
OptionSets ==
    [outputDirectory : {"undefined", "out", "missing"},
     layout : {"undefined", "LR", "TB", "BT", "RL", "XX"},
     theme : {"undefined", "", "light", "default", "dark", "colorful", "neon"}]

FormatLists == {<<"dot">>, <<"json">>, <<"dot", "json">>, <<"svg", "dot">>, <<"DOT">>}

InitOutput ==
    /\ PathIdle
    /\ CollIdle
    /\ project = NoProject
    /\ processedRouteObjects = {}
    /\ processedLazyLoads = {}
    /\ microtasks = <<>>
    /\ expansions = <<>>
    /\ parses = <<>>
    /\ phase = "idle"
    /\ navigationCalls = <<>>
    /\ flows = <<>>
    /\ layoutGraph = NoGraph
    /\ pathGraph = NoGraph
    /\ directory = [exists |-> FALSE, files |-> {}]
    /\ framework = "auto"
    /\ outcome = "pending"
    /\ result = NoResult
    /\ options \in OptionSets
    /\ outputFormats \in FormatLists
    /\ outputs = NotGenerated
    /\ outputsByPath = NotGenerated
    /\ ModIdle

\* generateOutputs with the first DotGenerator registered
GenerateOutputs ==
    /\ outputs = NotGenerated
    /\ outputs' = generateOutputs(outputFormats, options, FALSE)
    /\ UNCHANGED <<pathVars, collVars, runVars, navVars, entryVars, options, outputFormats,
                   outputsByPath, modVars>>

\* generateOutputs with the second DotGenerator registered
GenerateOutputsByPath ==
    /\ outputsByPath = NotGenerated
    /\ outputsByPath' = generateOutputs(outputFormats, options, TRUE)
    /\ UNCHANGED <<pathVars, collVars, runVars, navVars, entryVars, options, outputFormats,
                   outputs, modVars>>

NextOutput == GenerateOutputs \/ GenerateOutputsByPath

SpecOutput == InitOutput /\ [][NextOutput]_vars

-----------------------------------------------------------------------------
(* One analysis run: Spec *)

Init ==
    /\ PathIdle
    /\ CollIdle
    /\ project \in Projects
    /\ processedRouteObjects = {}
    /\ processedLazyLoads = {}
    /\ microtasks = <<>>
    /\ expansions = <<>>
    /\ parses = <<>>
    /\ phase = "start"
    /\ NavIdle

\* AngularAnalyzer.analyze up to the end of `await this.analyzeRoutingModules("/")`:
\* the route resolution runs synchronously; the continuations of the lazy
\* loads it started are queued
Analyze ==
    /\ phase = "start"
    /\ \E st \in {analyzeRoutingModules(
                    [routes |-> routes, added |-> added, tables |-> tables,
                     processedRouteObjects |-> processedRouteObjects,
                     processedLazyLoads |-> processedLazyLoads,
                     microtasks |-> microtasks, expansions |-> expansions,
                     parses |-> parses])} :
           /\ routes' = st.routes
           /\ added' = st.added
           /\ tables' = st.tables
           /\ processedRouteObjects' = st.processedRouteObjects
           /\ processedLazyLoads' = st.processedLazyLoads
           /\ microtasks' = st.microtasks
           /\ expansions' = st.expansions
           /\ parses' = st.parses
    /\ phase' = "resolved"
    /\ UNCHANGED <<pathVars, project, navVars, entryVars, outVars, modVars>>

\* a continuation that parses the loaded module after its await: a route of
\* the module reaches the collection when the continuation runs
LazyContinuationParses ==
    /\ phase = "resolved"
    /\ microtasks /= <<>>
    /\ processedLazyLoads' = processedLazyLoads \cup {Head(microtasks)}
    /\ microtasks' = Tail(microtasks)
    /\ LET pr == Route(<<"z">>, ResolveFullPath(Head(microtasks)[2], <<"z">>), "ZComponent",
                       Absent, NoName, <<>>, <<>>, FALSE)
       IN  /\ routes' = addRouteToCollection(routes, pr)
           /\ added' = Append(added, pr)
           /\ tables' = Append(tables, routes')
    /\ UNCHANGED <<pathVars, project, processedRouteObjects, expansions, parses, phase, navVars, entryVars, outVars, modVars>>

\* the continuation of one loadAndParseLazyModule call: the line after its await
LazyContinuation ==
    /\ phase = "resolved"
    /\ microtasks /= <<>>
    /\ processedLazyLoads' = processedLazyLoads \cup {Head(microtasks)}
    /\ microtasks' = Tail(microtasks)
    /\ UNCHANGED <<pathVars, collVars, project, processedRouteObjects, expansions, parses, phase, navVars, entryVars, outVars, modVars>>

\* analyzeSourceFilesForNavigation: it starts when the awaited route
\* resolution and the continuations queued before it have run
ExtractNavigation ==
    /\ phase = "resolved"
    /\ microtasks = <<>>
    /\ \E triggers \in TriggerLists :
        /\ navigationCalls' = triggers
        /\ flows' = flows \o FlowsOf(routes, triggers, 1)
    /\ phase' = "analyzed"
    /\ UNCHANGED <<pathVars, collVars, project, processedRouteObjects, processedLazyLoads,
                   microtasks, expansions, parses, layoutGraph, pathGraph, entryVars, outVars, modVars>>

\* DotGenerator.generate of the first generator on the AnalysisResult
GenerateDot ==
    /\ phase = "analyzed"
    /\ ~layoutGraph.drawn
    /\ layoutGraph' = createGraph(routes, flows)
    /\ UNCHANGED <<pathVars, collVars, runVars, navigationCalls, flows, pathGraph, entryVars, outVars, modVars>>

\* DotGenerator.generate of the second generator on the AnalysisResult
GenerateDotByPath ==
    /\ phase = "analyzed"
    /\ ~pathGraph.drawn
    /\ pathGraph' = createGraphByPath(routes, flows)
    /\ UNCHANGED <<pathVars, collVars, runVars, navigationCalls, flows, layoutGraph, entryVars, outVars, modVars>>

Next == Analyze \/ LazyContinuation \/ ExtractNavigation \/ GenerateDot \/ GenerateDotByPath

Spec == Init /\ [][Next]_vars

\* The route resolution on its own, with its scheduling: analyze() is called
\* and runs to its await, and the event loop runs every queued continuation.
NextResolve == Analyze \/ LazyContinuation

\* the step of Analyze, told by what it does to phase: Analyze is the only
\* action that leaves "start", and its guard is phase = "start"
ResolutionStep == phase = "start" /\ phase' = "resolved"

SpecResolve ==
    Init /\ [][NextResolve]_vars /\ WF_phase(ResolutionStep) /\ WF_vars(LazyContinuation)

-----------------------------------------------------------------------------
(* Route resolution through NgModule imports: SpecModules.  The calls of    *)
(* analyzeRoutingModules that processNgModuleImportsArray makes are taken   *)
(* one at a time; callStack holds the calls in progress.                    *)

ModuleFiles == {"app", "b", "c"}

\* the identifiers of an `imports` array, each by the file that declares
\* its class
ImportLists ==
    {<<>>} \cup {<<f>> : f \in ModuleFiles}
           \cup {fg \in ModuleFiles \X ModuleFiles : fg[1] /= fg[2]}

\* app.module.ts, b.module.ts and c.module.ts: each passes an array of one
\* route to RouterModule.forRoot / forChild and has an @NgModule imports array
ModuleProject(imports) ==
    [files |-> [f \in ModuleFiles |->
                  [routingCall |-> TRUE,
                   top |-> IF f = "app" THEN 1 ELSE IF f = "b" THEN 2 ELSE 3]],
     arrays |-> <<(<<1>>), (<<2>>), (<<3>>)>>,
     kids |-> <<0, 0, 0>>,
     objs |-> <<ObjectLiteral(<<>>, "AComponent", Absent, NoName, <<>>),
                ObjectLiteral(<<"b">>, "BComponent", Absent, NoName, <<>>),
                ObjectLiteral(<<"c">>, NoName, Absent, NoName, <<>>)>>,
     imports |-> imports]

ModuleProjects == {ModuleProject(imports) : imports \in [ModuleFiles -> ImportLists]}

\* the depth of calls at which the runtime raises RangeError
MaxStackDepth == 4

\* the fields of the analyzer that the route resolver reads and writes
AnalyzerFields ==
    [routes |-> routes, added |-> added, tables |-> tables,
     processedRouteObjects |-> processedRouteObjects,
     processedLazyLoads |-> processedLazyLoads,
     microtasks |-> microtasks, expansions |-> expansions, parses |-> parses]

AnalyzerFieldsBecome(st) ==
    /\ routes' = st.routes
    /\ added' = st.added
    /\ tables' = st.tables
    /\ processedRouteObjects' = st.processedRouteObjects
    /\ processedLazyLoads' = st.processedLazyLoads
    /\ microtasks' = st.microtasks
    /\ expansions' = st.expansions
    /\ parses' = st.parses

\* a call of analyzeRoutingModules(parentPath, [file]) in progress, about to
\* look at element `next` of the imports array of the file
Frame(file, next) == [file |-> file, next |-> next]

TopFrame == callStack[Len(callStack)]

\* the top call moves to its next import
NextImport == [callStack EXCEPT ![Len(callStack)].next = @ + 1]

InitModules ==
    /\ PathIdle
    /\ CollIdle
    /\ project \in ModuleProjects
    /\ processedRouteObjects = {}
    /\ processedLazyLoads = {}
    /\ microtasks = <<>>
    /\ expansions = <<>>
    /\ parses = <<>>
    /\ phase = "start"
    /\ NavIdle

\* analyzeRoutingModules("/") up to the NgModule imports of app.module.ts
AnalyzeModule ==
    /\ phase = "start"
    /\ AnalyzerFieldsBecome(extractRoutes("app", <<Slash>>, AnalyzerFields))
    /\ callStack' = <<Frame("app", 1)>>
    /\ phase' = "importing"
    /\ UNCHANGED <<pathVars, project, navVars, entryVars, outVars, stackOverflow>>

\* one element of the imports array in processNgModuleImportsArray: a class
\* of the same file is passed over; for a class of another file
\* analyzeRoutingModules(parentPath, [definitionSourceFile]) is called, and
\* the call fails with RangeError when the call stack is exhausted
EnterImport ==
    /\ phase = "importing"
    /\ callStack /= <<>>
    /\ TopFrame.next <= Len(project.imports[TopFrame.file])
    /\ \E target \in {project.imports[TopFrame.file][TopFrame.next]} :
        IF target = TopFrame.file
        THEN /\ callStack' = NextImport
             /\ UNCHANGED <<collVars, processedRouteObjects, processedLazyLoads, microtasks,
                            expansions, parses, stackOverflow>>
        ELSE IF Len(callStack) >= MaxStackDepth
        THEN /\ callStack' = NextImport
             /\ stackOverflow' = TRUE
             /\ UNCHANGED <<collVars, processedRouteObjects, processedLazyLoads, microtasks,
                            expansions, parses>>
        ELSE /\ AnalyzerFieldsBecome(extractRoutes(target, <<Slash>>, AnalyzerFields))
             /\ callStack' = Append(NextImport, Frame(target, 1))
             /\ UNCHANGED stackOverflow
    /\ UNCHANGED <<pathVars, project, phase, navVars, entryVars, outVars>>

\* the imports array of the top call is exhausted: the call returns
LeaveFile ==
    /\ phase = "importing"
    /\ callStack /= <<>>
    /\ TopFrame.next > Len(project.imports[TopFrame.file])
    /\ callStack' = SubSeq(callStack, 1, Len(callStack) - 1)
    /\ phase' = IF Len(callStack) = 1 THEN "resolved" ELSE phase
    /\ UNCHANGED <<pathVars, collVars, project, processedRouteObjects, processedLazyLoads,
                   microtasks, expansions, parses, navVars, entryVars, outVars, stackOverflow>>

NextModules == AnalyzeModule \/ EnterImport \/ LeaveFile

\* what a step of NextModules does to the chain of calls
ChainStep ==
    \/ phase = "start" /\ callStack' = <<Frame("app", 1)>>
    \/ /\ phase = "importing"
       /\ callStack /= <<>>
       /\ \/ /\ TopFrame.next <= Len(project.imports[TopFrame.file])
             /\ callStack' \in
                  {NextImport,
                   Append(NextImport, Frame(project.imports[TopFrame.file][TopFrame.next], 1))}
          \/ /\ TopFrame.next > Len(project.imports[TopFrame.file])
             /\ callStack' = SubSeq(callStack, 1, Len(callStack) - 1)

\* the calls are synchronous: a call in progress takes its next step
SpecModules == InitModules /\ [][NextModules]_vars /\ WF_callStack(ChainStep)

-----------------------------------------------------------------------------
(* The flow extractor of the React analyzer: SpecReact *)

\* a call expression of a source file: cls is getMainComponentFromFile of
\* the file (NoName for null), expressionText the text of the callee, and
\* firstArg the first argument
ReactCall(cls, expressionText, firstArg) ==
    [kind |-> "call", cls |-> cls, expressionText |-> expressionText, firstArg |-> firstArg]

\* no argument
NoArg == [kind |-> "none", value |-> Absent]

\* a string literal
StringArg(text) == [kind |-> "string", value |-> text]

\* { pathname: 'text' }
PathnameArg(text) == [kind |-> "object", value |-> text]

\* any other expression
OtherArg == [kind |-> "other", value |-> Absent]

\* the words of the navigation test that the callee texts drawn include
WordsIn(expressionText) ==
    CASE expressionText = "navigate" -> {"navigate"}
      [] expressionText = "history.push" -> {"push"}
      [] expressionText = "router.push" -> {"push"}
      [] expressionText = "router.replace" -> {"replace"}
      [] expressionText = "redirect" -> {"redirect"}
      [] OTHER -> {}

\* expressionText.includes("navigate") || ... "push" ... "replace" ... "redirect"
IsRouterNavigation(expressionText) ==
    WordsIn(expressionText) \cap {"navigate", "push", "replace", "redirect"} /= {}

\* expressionText === "router.push" || expressionText === "router.replace"
IsNextRouterCall(expressionText) == expressionText \in {"router.push", "router.replace"}

\* targetPath of the "React Router navigation" branch, "" when none
ReactTargetPath(firstArg) ==
    IF firstArg.kind \in {"string", "object"} /\ firstArg.value /= Absent THEN firstArg.value
    ELSE <<>>

\* the flows pushed by the "React Router navigation" branch for one call
ReactRouterFlows(call) ==
    IF IsRouterNavigation(call.expressionText) /\ call.firstArg.kind /= "none"
       /\ ReactTargetPath(call.firstArg) /= <<>>
    THEN <<NavigationFlow(call.cls, ReactTargetPath(call.firstArg), "dynamic")>>
    ELSE <<>>

\* the flows pushed by the "Next.js router" branch for one call
NextRouterFlows(call) ==
    IF IsNextRouterCall(call.expressionText) /\ call.firstArg.kind = "string"
    THEN <<NavigationFlow(call.cls, call.firstArg.value, "dynamic")>>
    ELSE <<>>

RECURSIVE ReactFlowsOf(_, _)
\* ReactAnalyzer.extractProgrammaticNavigation over the call expressions of
\* the source files, in order; a file without a main component is skipped
ReactFlowsOf(calls, i) ==
    IF i > Len(calls) THEN <<>>
    ELSE (IF ~TruthyName(calls[i].cls) THEN <<>>
          ELSE ReactRouterFlows(calls[i]) \o NextRouterFlows(calls[i]))
         \o ReactFlowsOf(calls, i + 1)

ReactCalls ==
    {ReactCall(cls, e, arg) :
        cls \in {NoName, "Home"},
        e \in {"navigate", "history.push", "router.push", "redirect", "fetch"},
        arg \in {NoArg, StringArg(<<Slash, "x">>), PathnameArg(<<Slash, "x">>), OtherArg}}

\* longest list of call expressions drawn
MaxCalls == 2

ReactCallLists == UNION {[1..n -> ReactCalls] : n \in 0..MaxCalls}

InitReact ==
    /\ PathIdle
    /\ CollIdle
    /\ RunIdle

\* analyzeNavigationFlows of the React analyzer on source files whose call
\* expressions are `calls` and which hold no JSX
ExtractReactNavigation ==
    /\ phase = "idle"
    /\ \E calls \in ReactCallLists :
        /\ navigationCalls' = calls
        /\ flows' = flows \o ReactFlowsOf(calls, 1)
    /\ phase' = "analyzed"
    /\ UNCHANGED <<pathVars, collVars, project, processedRouteObjects, processedLazyLoads,
                   microtasks, expansions, parses, layoutGraph, pathGraph, entryVars, outVars, modVars>>

NextReact == ExtractReactNavigation

SpecReact == InitReact /\ [][NextReact]_vars

-----------------------------------------------------------------------------
(* Claims about the path normalizer *)

\* C6: every fullPath produced by the route resolver starts with "/" and
\* contains no doubled slash, for any parent context reached from "/" and any
\* literal path segment, repeated slashes included.
C6_FullPathWellFormed ==
    fullPath /= Absent => (startsWith(fullPath, Slash) /\ ~HasDoubleSlash(fullPath))

\* C8: the normalization applied twice gives the same string as applied once.
C8_NormalizeIdempotent ==
    twice /= Absent => twice = once

\* a segment the normalization leaves as it is
IsCleanPath(s) == ~HasDoubleSlash(s) /\ (s = <<Slash>> \/ ~endsWith(s, Slash))

\* C9: a path segment that starts with "/" replaces the parent context
\* entirely: the fullPath is the segment itself.  Stated for the segments the
\* normalization leaves unchanged, so that only the join is in question.
C9_AbsoluteSegmentReplacesParent ==
    (fullPath /= Absent /\ startsWith(segment, Slash) /\ IsCleanPath(segment))
        => fullPath = segment

-----------------------------------------------------------------------------
(* Claims about the route collection *)

ComponentOnly(r) ==
    TruthyName(r.component) /\ ~TruthyName(r.loadChildren) /\ ~TruthyPath(r.redirectTo)

LoadChildrenOnly(r) ==
    ~TruthyName(r.component) /\ TruthyName(r.loadChildren) /\ ~TruthyPath(r.redirectTo)

\* the two routes added are one component-only and one loadChildren-only
\* declaration of the same fullPath, in either order
IsComponentAndLazyPair(p, q) ==
    /\ p.fullPath = q.fullPath
    /\ \/ ComponentOnly(p) /\ LoadChildrenOnly(q)
       \/ LoadChildrenOnly(p) /\ ComponentOnly(q)

RoutesAt(rs, fp) == {i \in 1..Len(rs) : rs[i].fullPath = fp}

\* C1: when a component-only and a loadChildren-only declaration of the same
\* fullPath have both been added, in either order, the table holds exactly one
\* route at that fullPath, and it carries both the component and the
\* loadChildren reference.
C1_MergeKeepsBothFields ==
    (Len(added) = 2 /\ IsComponentAndLazyPair(added[1], added[2]))
        => /\ Cardinality(RoutesAt(routes, added[1].fullPath)) = 1
           /\ \A i \in RoutesAt(routes, added[1].fullPath) :
                /\ TruthyName(routes[i].component)
                /\ TruthyName(routes[i].loadChildren)

\* the table before the k-th addRouteToCollection call
TableBefore(k) == IF k = 1 THEN <<>> ELSE tables[k - 1]

PathsOf(rs) == {rs[i].fullPath : i \in 1..Len(rs)}

\* C11: routes are never deleted from the collection: after any sequence of
\* add operations, every fullPath that was in the table at some point is
\* still in the table.
C11_RoutesNeverDeleted ==
    \A k \in 1..Len(tables) : PathsOf(tables[k]) \subseteq PathsOf(routes)

\* both routes populate one of component, loadChildren, redirectTo, with
\* different values
PopulateSameFieldDifferently(r, pr) ==
    \/ TruthyName(r.component) /\ TruthyName(pr.component) /\ r.component /= pr.component
    \/ /\ TruthyName(r.loadChildren) /\ TruthyName(pr.loadChildren)
       /\ r.loadChildren /= pr.loadChildren
    \/ TruthyPath(r.redirectTo) /\ TruthyPath(pr.redirectTo) /\ r.redirectTo /= pr.redirectTo

\* C12: when the route added has the fullPath of an existing entry and both
\* populate the same field (component, loadChildren or redirectTo) with
\* different values, the existing entry is kept and the table is unchanged,
\* whatever other fields the new route carries.
C12_ConflictKeepsExisting ==
    \A k \in 1..Len(added) :
        (\E i \in 1..Len(TableBefore(k)) :
            /\ TableBefore(k)[i].fullPath = added[k].fullPath
            /\ PopulateSameFieldDifferently(TableBefore(k)[i], added[k]))
        => tables[k] = TableBefore(k)

\* the k-th call found no entry with the fullPath of its route and an entry
\* with its component
SameComponentElsewhere(k) ==
    /\ added[k].fullPath \notin PathsOf(TableBefore(k))
    /\ TruthyName(added[k].component)
    /\ \E i \in 1..Len(TableBefore(k)) : TableBefore(k)[i].component = added[k].component

\* the entry the call compares its route with: the first with its component
ExistingByComponent(k) ==
    FindIndex(TableBefore(k), LAMBDA r : r.component = added[k].component)

\* the route the claim says is kept
KeptRoute(pr, existingRoute) ==
    IF Len(pr.fullPath) > Len(existingRoute.fullPath) \/ existingRoute.path = <<"*", "*">>
    THEN pr
    ELSE existingRoute

\* the table after holds kept in the place of the existing entry, not the
\* other route, and every other entry as it was
HoldsOneOfTheTwo(old, new, i, pr) ==
    /\ Len(new) = Len(old)
    /\ new[i] = KeptRoute(pr, old[i])
    /\ \A j \in 1..Len(old) : j /= i => new[j] = old[j]
    /\ \A j \in 1..Len(new) : new[j] \in {pr, old[i]} => j = i

\* C13: when no entry has the fullPath of the route added but an entry has
\* its component, the table keeps its number of entries and holds exactly one
\* of the two routes: the new one if its fullPath is strictly longer than the
\* existing one's or the existing one is the catch-all "**", the existing one
\* otherwise; every other entry is unchanged.
C13_SameComponentKeepsOne ==
    \A k \in 1..Len(added) :
        SameComponentElsewhere(k)
            => HoldsOneOfTheTwo(TableBefore(k), tables[k], ExistingByComponent(k), added[k])

\* a route with a shorter fullPath took the place of a catch-all entry with
\* its component
C13_Witness ==
    \E k \in 1..Len(added) :
        /\ SameComponentElsewhere(k)
        /\ TableBefore(k)[ExistingByComponent(k)].path = <<"*", "*">>
        /\ Len(added[k].fullPath) < Len(TableBefore(k)[ExistingByComponent(k)].fullPath)
        /\ tables[k][ExistingByComponent(k)] = added[k]

\* C25: after any sequence of addRouteToCollection calls no two routes of
\* the collection have the same fullPath: fullPath is a key of the table
C25_FullPathIsKey ==
    \A i, j \in 1..Len(routes) : i /= j => routes[i].fullPath /= routes[j].fullPath

\* a route was added whose fullPath the table held with fewer fields, and
\* the table holds two routes
C25_Witness ==
    /\ Len(routes) >= 2
    /\ \E k \in 1..Len(added) :
        /\ added[k].fullPath \in PathsOf(TableBefore(k))
        /\ tables[k] /= TableBefore(k)

-----------------------------------------------------------------------------
(* Claims about one analysis run *)

\* C5: no (loadChildren target, parent fullPath) pair is expanded more than
\* once in a run, also when the pair is reached again before the continuation
\* of the first call has recorded it in the memo.
C5_ExpandedAtMostOnce ==
    \A i, j \in 1..Len(expansions) : i /= j => expansions[i] /= expansions[j]

RootFlagged(rs) == {i \in 1..Len(rs) : rs[i].isRoot}

AtMostOneRoot(rs) ==
    /\ Cardinality(RootFlagged(rs)) <= 1
    /\ \A i \in RootFlagged(rs) : rs[i].fullPath = <<Slash>>

\* C7: in every state of the route collection reached while resolving a
\* route configuration, at most one Route has isRoot = TRUE, and every Route
\* with isRoot = TRUE has fullPath "/".
C7_AtMostOneRoot ==
    \A k \in 1..Len(tables) : AtMostOneRoot(tables[k])

\* two parsed routes were flagged isRoot, and the table holds a flagged route
C7_Witness ==
    /\ phase = "resolved"
    /\ \E i, j \in 1..Len(added) : i /= j /\ added[i].isRoot /\ added[j].isRoot
    /\ RootFlagged(routes) /= {}

\* the parsed routes with parent context "/" and empty path: a route with
\* fullPath "/" and path "" has no other parent context
ParsedAtRoot == {i \in 1..Len(added) : added[i].fullPath = <<Slash>> /\ added[i].path = <<>>}

FlaggedParsed == {i \in 1..Len(added) : added[i].isRoot}

\* C14: during route resolution the first parsed route with parent context
\* "/" and empty path gets isRoot = TRUE and no route parsed after it with
\* fullPath "/" gets it, a later element of the same array and an empty-path
\* child of that first route included: of the parsed routes, one is flagged
\* when some route was parsed at "/" with empty path, and never two.
C14_OnlyFirstRootFlagged ==
    /\ Cardinality(FlaggedParsed) <= 1
    /\ ParsedAtRoot /= {} => FlaggedParsed /= {}

\* the object literals of the project whose path is not a string literal
NonLiteralObjects == {o \in 1..Len(project.objs) : project.objs[o].path = NonLiteral}

\* no other object literal of the project names the component of o
NamesItsComponentAlone(o) ==
    /\ TruthyName(project.objs[o].component)
    /\ \A q \in 1..Len(project.objs) :
        q /= o => project.objs[q].component /= project.objs[o].component

\* C17: a route-declaration element whose path initializer is not a string
\* literal is skipped: it contributes no Route to the table, whatever other
\* properties it has.  Stated for an element that alone names its component:
\* no Route of the table carries that component.
C17_NonLiteralPathSkipped ==
    \A o \in NonLiteralObjects :
        NamesItsComponentAlone(o)
            => \A i \in 1..Len(routes) : routes[i].component /= project.objs[o].component

\* the longest label a navigation flow may carry
MaxLabelLength == 40

\* the label of a NavigationFlow; the field is optional
LabelOf(flow) == IF "label" \in DOMAIN flow THEN flow.label ELSE NoLabel

\* the label the flow of a router call is to carry
ExpectedLabel(call) ==
    IF call.enclosingIf /= Absent
    THEN (IF Len(call.enclosingIf) > MaxLabelLength
          THEN SubSeq(call.enclosingIf, 1, MaxLabelLength)
          ELSE call.enclosingIf)
    ELSE IF call.leadingComment /= Absent THEN call.leadingComment
    ELSE NoLabel

\* the router calls of the source files analysed
RouterCalls == {i \in 1..Len(navigationCalls) : navigationCalls[i].kind /= "routerLink"}

\* the flows recorded for the i-th trigger
FlowsOfCall(i) ==
    {k \in 1..Len(flows) :
        \E j \in 1..Len(parseNavigationCall(routes, navigationCalls[i])) :
            flows[k] = parseNavigationCall(routes, navigationCalls[i])[j]}

\* C18: the NavigationFlow of an imperative navigation call immediately
\* enclosed in a conditional carries the guard text of the conditional as its
\* label, truncated to at most 40 characters; with no enclosing conditional
\* but a comment before the call, the comment text is the label; otherwise
\* the flow has no label.
C18_FlowLabelFromConditionOrComment ==
    \A i \in RouterCalls : \A k \in FlowsOfCall(i) :
        LabelOf(flows[k]) = ExpectedLabel(navigationCalls[i])

\* every Route built was handed to the collection once, no object literal
\* was turned into a Route of the same fullPath twice, and the table holds no
\* fullPath twice
NoSubtreeInsertedTwice ==
    /\ Len(added) = Len(parses)
    /\ \A i, j \in 1..Len(parses) : i /= j => parses[i] /= parses[j]
    /\ \A i, j \in 1..Len(routes) : i /= j => routes[i].fullPath /= routes[j].fullPath

ResolutionDone == phase = "resolved" /\ microtasks = <<>>

\* C19: route resolution terminates on every finite project, those whose
\* deferred-module graph is cyclic or diamond-shaped included (a lazily
\* loaded file holds a route that lazily loads a file already being
\* expanded, possibly itself through an empty path), and no subtree is
\* inserted into the table twice.
C19_ResolutionTerminatesWithoutDuplicates ==
    /\ []NoSubtreeInsertedTwice
    /\ (phase = "start") ~> ResolutionDone

\* the lazily loaded file m holds a route that lazily loads m
IsCyclic ==
    /\ "m" \in DOMAIN project.files
    /\ \E i \in 1..Len(project.arrays[project.files["m"].top]) :
        project.objs[project.arrays[project.files["m"].top][i]].loadChildren = "m"

\* two routes of app.config.ts lazily load the same file m under different paths
IsDiamond ==
    /\ "m" \in DOMAIN project.files
    /\ \E i, j \in 1..Len(project.arrays[1]) :
        /\ project.objs[project.arrays[1][i]].loadChildren = "m"
        /\ project.objs[project.arrays[1][j]].loadChildren = "m"
        /\ PathOf(project.objs[project.arrays[1][i]]) /= PathOf(project.objs[project.arrays[1][j]])

\* the resolution of a cyclic project ended after the file was entered a
\* second time, and its routes are in the table
C19_Witness ==
    /\ IsCyclic
    /\ ResolutionDone
    /\ Len(expansions) >= 2
    /\ Len(routes) >= 2

-----------------------------------------------------------------------------
(* Claims about the assembled graphs *)

\* the edges of a drawn graph of one type, as <<source path, target path>>
EdgesOfType(g, type) ==
    {<<g.edges[k].source.originalPath, g.edges[k].target.originalPath>> :
        k \in {j \in 1..Len(g.edges) : g.edges[j].type = type}}

CountOfType(g, type) == Cardinality({j \in 1..Len(g.edges) : g.edges[j].type = type})

BothDrawn == layoutGraph.drawn /\ pathGraph.drawn

\* the top-level array of app.config.ts declares {path: 'a', redirectTo: ''}
\* and the table has a route at "/"
DeclaresEmptyRedirect ==
    /\ \E i \in 1..Len(project.arrays[1]) :
        /\ project.objs[project.arrays[1][i]].path = <<"a">>
        /\ project.objs[project.arrays[1][i]].redirectTo = <<>>
    /\ \E i \in 1..Len(routes) : routes[i].fullPath = <<Slash>>

ExactlyOneRedirectToRoot(g) ==
    /\ CountOfType(g, "redirect") = 1
    /\ EdgesOfType(g, "redirect") = {<<(<<Slash, "a">>), (<<Slash>>)>>}

\* C2: a root-level declaration {path: 'a', redirectTo: '', pathMatch: 'full'}
\* in a table that also has a route at "/" gives exactly one redirect edge in
\* the assembled graph, from the node of "/a" to the node of "/".
C2_EmptyRedirectGivesOneEdge ==
    (BothDrawn /\ DeclaresEmptyRedirect)
        => (ExactlyOneRedirectToRoot(layoutGraph) /\ ExactlyOneRedirectToRoot(pathGraph))

\* the distinct fullPaths of the route table that are not wildcards
ConcretePaths(rs) == {rs[i].fullPath : i \in {j \in 1..Len(rs) : ~IncludesWildcard(rs[j].fullPath)}}

\* the RouteNodes of a graph that stand for routes: all but the synthetic
\* ROOT node of the first generator
NodesOfRoutes(g) == {k \in 1..Len(g.nodes) : g.nodes[k].key /= RootKey}

\* one RouteNode for each concrete fullPath of the table, and no other
OneNodePerConcretePath(g) ==
    /\ \A p \in ConcretePaths(routes) :
        Cardinality({k \in NodesOfRoutes(g) : g.nodes[k].originalPath = p}) = 1
    /\ \A k \in NodesOfRoutes(g) :
        /\ g.nodes[k].originalPath \in ConcretePaths(routes)
        /\ ~IncludesWildcard(g.nodes[k].originalPath)

\* C15: the graph assembler creates exactly one RouteNode for each distinct
\* fullPath of the route table that is not a wildcard, the RouteNodes
\* correspond one-to-one to those fullPaths, and no RouteNode exists for a
\* wildcard route.  (The ROOT node of the first generator is not counted.)
C15_OneNodePerConcretePath ==
    BothDrawn => (OneNodePerConcretePath(layoutGraph) /\ OneNodePerConcretePath(pathGraph))

\* the (source node, target node, type, label) of a drawn edge, a node being
\* the node of the rendered graph, named by its id
EdgeTuple(e) == <<e.source.id, e.target.id, e.type, e.label>>

NoDuplicateEdges(g) ==
    \A i, j \in 1..Len(g.edges) : i /= j => EdgeTuple(g.edges[i]) /= EdgeTuple(g.edges[j])

\* C16: no two edges emitted into the rendered graph have the same (source
\* node, target node, type, label): redirect, hierarchy and flow edges are
\* deduplicated on that 4-tuple.
C16_NoDuplicateEdges ==
    NoDuplicateEdges(layoutGraph) /\ NoDuplicateEdges(pathGraph)

\* the same navigation was found twice, and each graph drew its edge once
C16_Witness ==
    /\ BothDrawn
    /\ Len(flows) = 2
    /\ flows[1] = flows[2]
    /\ CountOfType(layoutGraph, flows[1].type) = 1
    /\ CountOfType(pathGraph, flows[1].type) = 1

\* the node the edge ends in is protected by guards
EndsAtGuarded(e) == e.target.guards /= <<>>

\* the drawn edges of a graph carry the guards of their target as label when
\* they are dynamic, and no label when they are static
GuardLabelsDrawn(g) ==
    \A k \in 1..Len(g.edges) :
        /\ (g.edges[k].type = "dynamic" /\ EndsAtGuarded(g.edges[k]))
            => g.edges[k].label = JoinGuardsFrom(g.edges[k].target.guards, 1)
        /\ g.edges[k].type = "static" => g.edges[k].label = NoLabel

\* C20: every dynamic edge whose destination node is protected by guards
\* carries the guard names joined by ", " as its label, whether the
\* destination was found by its exact path or by a ":param" pattern, and no
\* static edge carries a guard label
C20_GuardLabelOnDynamicEdges == GuardLabelsDrawn(layoutGraph) /\ GuardLabelsDrawn(pathGraph)

\* a dynamic edge to the node of "/b" carries "G, H"; a static edge to that
\* node is drawn without a label
C20_ExactTargetLabelled ==
    /\ BothDrawn
    /\ \E k \in 1..Len(pathGraph.edges) :
        /\ pathGraph.edges[k].type = "dynamic"
        /\ pathGraph.edges[k].label = <<"G", ",", " ", "H">>
    /\ \E k \in 1..Len(pathGraph.edges) :
        /\ pathGraph.edges[k].type = "static"
        /\ EndsAtGuarded(pathGraph.edges[k])

ParamPath == <<Slash, "a", Slash, ":", "i">>

\* the table holds "/a/:i" for AComponent and a route of BComponent, and
\* BComponent calls router.navigate(['/a', '1'])
NavigatesToParamRoute ==
    /\ \E i \in 1..Len(routes) :
        routes[i].fullPath = ParamPath /\ routes[i].component = "AComponent"
    /\ \E i \in 1..Len(routes) :
        routes[i].component = "BComponent" /\ ~IncludesWildcard(routes[i].fullPath)
    /\ \E k \in 1..Len(flows) :
        flows[k] = NavigationFlow("BComponent", <<Slash, "a", Slash, "1">>, "dynamic")

\* the graph has a dynamic edge from the node of BComponent to the node of "/a/:i"
HasEdgeToParamNode(g) ==
    \E k \in 1..Len(g.edges) :
        /\ g.edges[k].type = "dynamic"
        /\ g.edges[k].source.component = "BComponent"
        /\ g.edges[k].target.originalPath = ParamPath

\* C3: with "/a/:i" (AComponent) and a route of BComponent in the table, the
\* call router.navigate(['/a', '1']) in BComponent gives a flow edge from
\* BComponent's node to the node of "/a/:i", found by parameter matching; the
\* flow is not dropped.
C3_LiteralTargetMatchesParamRoute ==
    (BothDrawn /\ NavigatesToParamRoute)
        => (HasEdgeToParamNode(layoutGraph) /\ HasEdgeToParamNode(pathGraph))

\* app.config.ts declares 'a' with the child 'b' that has the child 'c';
\* none of the three redirects or loads a module, and no two of them name the
\* same component
DeclaresNestedChain ==
    /\ project.kids = <<2, 3, 0>>
    /\ project.objs[1].path = <<"a">>
    /\ project.objs[2].path = <<"b">>
    /\ project.objs[3].path = <<"c">>
    /\ \A o \in 1..3 :
        project.objs[o].redirectTo = Absent /\ ~TruthyName(project.objs[o].loadChildren)
    /\ \A o, q \in 1..3 :
        (o /= q /\ TruthyName(project.objs[o].component))
            => project.objs[o].component /= project.objs[q].component

ChainPaths == {<<Slash, "a">>, <<Slash, "a", Slash, "b">>, <<Slash, "a", Slash, "b", Slash, "c">>}

ExactlyTheChainEdges(g) ==
    /\ CountOfType(g, "hierarchy") = 2
    /\ EdgesOfType(g, "hierarchy") =
        {<<(<<Slash, "a">>), (<<Slash, "a", Slash, "b">>)>>,
         <<(<<Slash, "a", Slash, "b">>), (<<Slash, "a", Slash, "b", Slash, "c">>)>>}

\* C4: the declaration 'a' with child 'b' with child 'c' gives exactly the
\* three routes "/a", "/a/b", "/a/b/c", and the assembled graph has exactly
\* two hierarchy edges: "/a" to "/a/b" and "/a/b" to "/a/b/c".
C4_NestedChainGivesTwoHierarchyEdges ==
    (BothDrawn /\ DeclaresNestedChain)
        => /\ Len(routes) = 3
           /\ {routes[i].fullPath : i \in 1..Len(routes)} = ChainPaths
           /\ ExactlyTheChainEdges(layoutGraph)
           /\ ExactlyTheChainEdges(pathGraph)

-----------------------------------------------------------------------------
(* Claims about the entry point *)

\* the project directory exists and holds no source or configuration file
EmptyProject == directory.exists /\ directory.files = {}

\* C10: analysing a project directory that holds no source or configuration
\* file completes without raising an exception and returns an AnalysisResult
\* whose routes, flows and menus are all empty.
C10_EmptyProjectReturnsEmpty ==
    (EmptyProject /\ outcome /= "pending")
        => (outcome = "returned" /\ result = NoResult)

-----------------------------------------------------------------------------
(* Claims about the generated outputs *)

\* the themes of the README, which the test suite passes as --theme
DocumentedThemes == {"default", "dark", "colorful"}

\* a DOT output is asked for with a documented theme, and the other options
\* are valid
AsksDotWithDocumentedTheme ==
    /\ \E i \in 1..Len(outputFormats) : ToLowerCase(outputFormats[i]) = "dot"
    /\ options.theme \in DocumentedThemes
    /\ DirectoryErrors(DefaultOptions(options)) = <<>>
    /\ LayoutErrors(options) = <<>>

HasDot(outs) == \E i \in 1..Len(outs) : outs[i].format = "dot"

\* C21: for each documented theme (default, dark, colorful), validateOptions
\* reports no error, generateOutputs does not skip the DOT generator and a
\* DOT output is produced, with either DotGenerator registered
C21_DocumentedThemesGiveDot ==
    AsksDotWithDocumentedTheme =>
        /\ outputs /= NotGenerated
            => (validateOptions(DefaultOptions(options)) = <<>> /\ HasDot(outputs))
        /\ outputsByPath /= NotGenerated
            => (validateOptionsByPath(DefaultOptions(options)) = <<>> /\ HasDot(outputsByPath))

\* the same for the second DotGenerator alone
DocumentedThemesGiveDotByPath ==
    (AsksDotWithDocumentedTheme /\ outputsByPath /= NotGenerated)
        => (validateOptionsByPath(DefaultOptions(options)) = <<>> /\ HasDot(outputsByPath))

-----------------------------------------------------------------------------
(* Claims about the flow extractors *)

\* an imperative navigation call with a resolvable target, in a file that
\* has a main component
IsResolvableReactCall(call) ==
    /\ TruthyName(call.cls)
    /\ IsRouterNavigation(call.expressionText) \/ IsNextRouterCall(call.expressionText)
    /\ ReactTargetPath(call.firstArg) /= <<>>

ResolvableReactCalls == {i \in 1..Len(navigationCalls) : IsResolvableReactCall(navigationCalls[i])}

\* C22: the flow extractor appends exactly one NavigationFlow per imperative
\* navigation call with a resolvable target (one flow for one call
\* router.push('/x')): no such call is dropped or recorded twice
C22_OneFlowPerNavigationCall ==
    phase = "analyzed" => Len(flows) = Cardinality(ResolvableReactCalls)

-----------------------------------------------------------------------------
(* Claims about NgModule imports *)

\* no file is being resolved twice in the chain of calls in progress
NoContainerTwiceInChain ==
    \A i, j \in 1..Len(callStack) : i /= j => callStack[i].file /= callStack[j].file

\* two module files list a class of each other in their imports
ImportEachOther ==
    /\ "imports" \in DOMAIN project
    /\ \E f, g \in ModuleFiles :
        /\ f /= g
        /\ \E i \in 1..Len(project.imports[f]) : project.imports[f][i] = g
        /\ \E i \in 1..Len(project.imports[g]) : project.imports[g][i] = f

\* C23: route resolution terminates when NgModule files import each other
\* cyclically: no container is resolved again within the chain of calls that
\* is resolving it, the call stack is never exhausted, and the resolution
\* reaches its end
C23_CyclicImportsTerminate ==
    /\ []NoContainerTwiceInChain
    /\ [](~stackOverflow)
    /\ (phase = "start") ~> (phase = "resolved")

\* the resolution always reaches its end in the model, where the call stack
\* is exhausted at MaxStackDepth calls
ResolutionEndsOrOverflows == (phase = "start") ~> (phase = "resolved")

\* each object literal is still turned into a route at most once
ModulesParsedOnce == Len(added) = Cardinality(processedRouteObjects)

-----------------------------------------------------------------------------
(* Claims about the object literals parsed *)

\* C24: no route-declaration object literal is turned into a Route more
\* than once in a run: once an element was parsed, every later pass that
\* reaches it (general scan, children scan, lazy re-entry into the same
\* file) skips it
C24_ObjectLiteralParsedOnce ==
    \A i, j \in 1..Len(parses) : i /= j => parses[i][1] /= parses[j][1]

\* the elements of app.config.ts's array that lazily load m
LoadersOfM == {o \in {project.arrays[1][i] : i \in 1..Len(project.arrays[1])} :
                 project.objs[o].loadChildren = "m"}

\* the route declarations of the top array of m
DeclarationsOfM ==
    {o \in {project.arrays[project.files["m"].top][i] :
                i \in 1..Len(project.arrays[project.files["m"].top])} :
        ~HasNoRouteProperty(project.objs[o], project.kids[o] /= 0)}

\* the fullPath of a top-level element of app.config.ts
TopFullPath(o) == ResolveFullPath(<<Slash>>, PathOf(project.objs[o]))

ParsesDone == {parses[k] : k \in 1..Len(parses)}

\* C26: a deferred module referenced by two routes with different fullPaths
\* is expanded once per parent context: its route declarations are resolved
\* under each of the two parent fullPaths
C26_SharedModuleResolvedPerParent ==
    (ResolutionDone /\ IsDiamond) =>
        \A loader \in LoadersOfM : \A o \in DeclarationsOfM :
            <<o, ResolveFullPath(TopFullPath(loader), PathOf(project.objs[o]))>> \in ParsesDone

-----------------------------------------------------------------------------
(* Claims about the order of lazy loading and flow extraction *)

\* the routes of the collection and the log of its calls
CollectionUntouched == UNCHANGED <<routes, added, tables>>

\* every Route a parse built, the lazily loaded ones included, was handed to
\* the collection
EveryParsedRouteAdded == Len(added) = Len(parses)

\* C27: the route resolution, lazy modules included, is over when
\* `await this.analyzeRoutingModules("/")` returns: from then on, through the
\* continuations of the lazy loads and the flow extraction, no call reaches
\* the route collection, and every parsed Route is already in its call log
C27_LazyRoutesBeforeFlowExtraction ==
    [][/\ phase /= "start" => CollectionUntouched
       /\ phase' /= "start" => EveryParsedRouteAdded']_vars

\* a lazy module was expanded, its routes are in the collection, and flow
\* extraction has run on them
C27_Witness ==
    /\ phase = "analyzed"
    /\ Len(expansions) >= 1
    /\ processedLazyLoads /= {}
    /\ \E i \in 1..Len(routes) : \E j \in 1..Len(routes) :
           /\ TruthyName(routes[i].loadChildren)
           /\ i /= j
           /\ Len(routes[j].fullPath) >= Len(routes[i].fullPath)
    /\ flows /= <<>>

-----------------------------------------------------------------------------
(* Claims about the ids of the graph nodes *)

\* no two RouteNodes of different original paths carry one node id
DistinctNodeIds(g) ==
    \A i, j \in 1..Len(g.nodes) :
        g.nodes[i].originalPath /= g.nodes[j].originalPath => g.nodes[i].id /= g.nodes[j].id

\* C28: in the graph of either generator, two RouteNodes with different
\* original paths never have the same node id: the id cleanRoutePath derives
\* from a fullPath is distinct for distinct fullPaths of the route table
C28_DistinctNodeIds == DistinctNodeIds(layoutGraph) /\ DistinctNodeIds(pathGraph)

\* a literal route and a parameter route of different fullPaths drawn under
\* one node id
C28_TwinsShareId ==
    \E i, j \in 1..Len(pathGraph.nodes) :
        /\ pathGraph.nodes[i].originalPath = <<Slash, "a", Slash, "i">>
        /\ pathGraph.nodes[j].originalPath = <<Slash, "a", Slash, ":", "i">>
        /\ pathGraph.nodes[i].id = pathGraph.nodes[j].id

-----------------------------------------------------------------------------
(* Claims about components and the root flag in the route collection *)

\* two entries of the table that name one component
SameComponent(r, q) == TruthyName(r.component) /\ r.component = q.component

\* C29: after any sequence of addRouteToCollection calls no two routes of
\* the collection carry the same component identifier
C29_ComponentIsKey ==
    \A i, j \in 1..Len(routes) : i /= j => ~SameComponent(routes[i], routes[j])

\* the last call replaced the entry of its fullPath, which named no
\* component, by a route whose component another entry already names
C29_MergeRepeatsComponent ==
    /\ Len(added) >= 1
    /\ Len(routes) >= 2
    /\ \E i, j \in 1..Len(routes) :
           /\ i /= j
           /\ routes[i] = added[Len(added)]
           /\ SameComponent(routes[i], routes[j])

\* the table holds a route flagged isRoot at fullPath "/"
HasRootFlagged(rs) ==
    \E k \in 1..Len(rs) : rs[k].isRoot /\ rs[k].fullPath = <<Slash>>

\* C30: once a route with isRoot = true is in the collection, the collection
\* after every later addRouteToCollection call holds a route with
\* isRoot = true at fullPath "/"
C30_RootFlagKept ==
    \A i, j \in 1..Len(tables) :
        (i <= j /\ HasRootFlagged(tables[i])) => HasRootFlagged(tables[j])

\* the root-flagged entry was replaced by a longer route of its component:
\* the analysis ends with a table that has no root-flagged route
C30_RootFlagLost ==
    /\ phase = "analyzed"
    /\ \E i \in 1..Len(tables) : HasRootFlagged(tables[i])
    /\ ~HasRootFlagged(routes)
    /\ \E k \in 1..Len(routes) : TruthyName(routes[k].component)

====
